---- MODULE Spec2Model ----
(***************************************************************************)
(* A model of the derived-financial-computation core of financial-tracker: *)
(* the amortization engine, the recurring-rule scheduler, the budget       *)
(* evaluator, the analytics aggregator and the cash-flow forecast engine,  *)
(* as given in docs/features/*.md.                                         *)
(*                                                                         *)
(* Conventions.  A Date is a calendar day, counted in days since           *)
(* 1970-01-01 (a Thursday); the time of day is not modelled.  Money is in  *)
(* integer cents.  A rate is an exact fraction <<num, den>> and the        *)
(* arithmetic on it is exact; Math.round(a / b) is floor(a / b + 1/2).     *)
(***************************************************************************)
EXTENDS Integers, Sequences, FiniteSets, Bags, TLC

VARIABLES
    loan,        \* amortization: the arguments of computeFrenchAmortizationTable
    table,       \* amortization: the table returned (<<>> before the call)
    amStatus,    \* amortization: "input", "ok" or "threw"
    rules,          \* scheduler: the recurring rules (IRecurringDebt[])
    existingLinks,  \* scheduler: the postings made (IRecurringMovementLink[], as a bag)
    today,          \* scheduler: the current day
    pending,        \* scheduler: the rules the last due-check returned, not yet posted
    posted,         \* scheduler: ids of rules posted whose nextDueDate is not yet advanced
    ticks,          \* scheduler: how often time has passed
    lastOp,         \* scheduler: the last operation run
    budget,         \* budgets: the budget evaluated (IBudget)
    movements,      \* budgets: the movements store (IMovement[], ids unique)
    firedAlerts,    \* budgets: the alerts store (IBudgetAlert[], ids unique)
    priorPeriodRemaining,  \* budgets: unused budget of the prior period
    bToday,         \* budgets: the current day
    budgetStatus,   \* budgets: <<the IBudgetStatus last derived>>, <<>> when stale
    anParams,       \* analytics: the arguments of buildAnalyticsReport
    timeSeries,     \* analytics: the timeSeries of the report (<<>> before the call)
    anStatus,       \* analytics: "input" or "done"
    fcParams,       \* forecast: the arguments of generateForecast
    forecast,       \* forecast: the ICashFlowForecast returned
    fcStatus,       \* forecast: "input" or "done"
    callArgs,       \* pure functions called on their own: the arguments of the call
    callResult,     \* pure functions called on their own: what the call returned
    callStatus,     \* pure functions called on their own: "input", then what was called
    longTermDebt,   \* long-term debt: the stored ILongTermDebt
    debtOp,         \* long-term debt: the last operation on its table
    recomputes,     \* long-term debt: the recomputeFromPeriod calls so far
    provider,          \* application: the version of the movements provider
    movementsState,    \* application: the movements (useState of the provider)
    entities,          \* application: the entities (useState of the provider)
    storage,           \* application: the movements in AsyncStorage
    storageOps,        \* application: the AsyncStorage calls issued, not yet completed
    loadData,          \* application: <<what getItem returned>>, until fetchData continues
    hydrated,          \* application: fetchData has set the movements
    touched,           \* application: the user has added or removed a movement
    persisted,         \* application: the movements in storage at start-up
    selectedEntities,  \* transfer screen: the ids selected (0: none)
    fromEntity,        \* transfer screen: memo of the source entity, <<>> for null
    toEntity,          \* transfer screen: memo of the target entity (its id, the
                       \* total is never read), <<>> for null
    amountTransaction, \* transfer screen: the amount typed, formatted
    appOp              \* application: the last step

amortVars == <<loan, table, amStatus>>
schedVars == <<rules, existingLinks, today, pending, posted, ticks, lastOp>>
budgetVars == <<budget, movements, firedAlerts, priorPeriodRemaining, bToday,
                budgetStatus>>
analyticsVars == <<anParams, timeSeries, anStatus>>
forecastVars == <<fcParams, forecast, fcStatus>>
callVars == <<callArgs, callResult, callStatus>>
debtVars == <<longTermDebt, debtOp, recomputes>>
appVars == <<provider, movementsState, entities, storage, storageOps, loadData, hydrated,
             touched, persisted, selectedEntities, fromEntity, toEntity,
             amountTransaction, appOp>>
vars == <<loan, table, amStatus,
          rules, existingLinks, today, pending, posted, ticks, lastOp,
          budget, movements, firedAlerts, priorPeriodRemaining, bToday, budgetStatus,
          anParams, timeSeries, anStatus,
          fcParams, forecast, fcStatus,
          callArgs, callResult, callStatus,
          longTermDebt, debtOp, recomputes,
          provider, movementsState, entities, storage, storageOps, loadData, hydrated,
          touched, persisted, selectedEntities, fromEntity, toEntity,
          amountTransaction, appOp>>

----------------------------------------------------------------------------
(* Bounds of the model *)

MaxPrincipal == 60
MaxTerm == 4
MaxTicks == 3
MaxSpan == 40
MaxHorizon == 3
MaxGap == 3
MaxRecomputes == 2

----------------------------------------------------------------------------
(* Each engine is a pure function of its arguments, so each is checked in  *)
(* a specification of its own; the state of the engines not in use is      *)
(* held at these values.                                                   *)

IdleAmort == loan = [principal |-> 0] /\ table = <<>> /\ amStatus = "idle"

IdleSched ==
    /\ rules = <<>> /\ existingLinks = EmptyBag /\ today = 0
    /\ pending = <<>> /\ posted = {} /\ ticks = 0 /\ lastOp = "idle"

IdleBudget ==
    /\ budget = [id |-> "0"] /\ movements = {} /\ firedAlerts = {}
    /\ priorPeriodRemaining = 0 /\ bToday = 0 /\ budgetStatus = <<>>

IdleAnalytics ==
    anParams = [granularity |-> "none"] /\ timeSeries = <<>> /\ anStatus = "idle"

IdleForecast ==
    fcParams = [periodType |-> "none"] /\ forecast = [entries |-> <<>>] /\ fcStatus = "idle"

IdleCall ==
    callArgs = [frequency |-> "none"] /\ callResult = <<>> /\ callStatus = "idle"

IdleDebt ==
    longTermDebt = [amortizationTable |-> <<>>] /\ debtOp = [op |-> "idle"] /\ recomputes = 0

IdleApp ==
    /\ provider = "none" /\ movementsState = <<>> /\ entities = <<>>
    /\ storage = <<>> /\ storageOps = <<>> /\ loadData = <<>>
    /\ hydrated = FALSE /\ touched = FALSE /\ persisted = <<>>
    /\ selectedEntities = [from |-> 0, to |-> 0]
    /\ fromEntity = <<>> /\ toEntity = <<>> /\ amountTransaction = <<>>
    /\ appOp = [op |-> "idle"]

----------------------------------------------------------------------------
(* Calendar arithmetic (date-fns on calendar days) *)

\* A `const x = value` of the source: the value is computed once and then
\* used in Body under the name Body gives it.
Const(value, Body(_)) == CHOOSE r \in {Body(x) : x \in {value}} : TRUE

\* Days since 1970-01-01 of the civil date y-m-d (proleptic Gregorian).
DaysFromCivil(y, m, d) ==
    LET yy  == IF m <= 2 THEN y - 1 ELSE y
        era == yy \div 400
        yoe == yy - era * 400
        mp  == IF m > 2 THEN m - 3 ELSE m + 9
        doy == (153 * mp + 2) \div 5 + d - 1
        doe == yoe * 365 + yoe \div 4 - yoe \div 100 + doy
    IN  era * 146097 + doe - 719468

\* The civil date [y, m, d] of a day number.
CivilFromDays(z) ==
    LET zz  == z + 719468
        era == zz \div 146097
        doe == zz - era * 146097
        yoe == (doe - doe \div 1460 + doe \div 36524 - doe \div 146096) \div 365
        doy == doe - (365 * yoe + yoe \div 4 - yoe \div 100)
        mp  == (5 * doy + 2) \div 153
        dd  == doy - (153 * mp + 2) \div 5 + 1
        mm  == IF mp < 10 THEN mp + 3 ELSE mp - 9
        yy  == yoe + era * 400 + (IF mm <= 2 THEN 1 ELSE 0)
    IN  [y |-> yy, m |-> mm, d |-> dd]

getFullYear(date) == CivilFromDays(date).y
\* Date.getMonth() is 0-based.
getMonth(date) == CivilFromDays(date).m - 1
getDate(date) == CivilFromDays(date).d
\* Date.getDay(): 0 = Sunday .. 6 = Saturday.
getDay(date) == (date + 4) % 7

IsLeapYear(y) == (y % 4 = 0 /\ y % 100 # 0) \/ y % 400 = 0

\* m is 1-based here.
DaysInMonth(y, m) ==
    IF m = 2 THEN (IF IsLeapYear(y) THEN 29 ELSE 28)
    ELSE IF m \in {4, 6, 9, 11} THEN 30 ELSE 31

Min(a, b) == IF a <= b THEN a ELSE b
Max(a, b) == IF a >= b THEN a ELSE b

addDays(date, n) == date + n
addWeeks(date, n) == date + 7 * n

\* date-fns addMonths: same day of month, clamped to the target month's end.
addMonths(date, n) ==
    LET c   == CivilFromDays(date)
        idx == c.y * 12 + (c.m - 1) + n
        ty  == idx \div 12
        tm  == (idx % 12) + 1
    IN  DaysFromCivil(ty, tm, Min(c.d, DaysInMonth(ty, tm)))

addQuarters(date, n) == addMonths(date, 3 * n)
addYears(date, n) == addMonths(date, 12 * n)

startOfMonth(date) ==
    LET c == CivilFromDays(date) IN DaysFromCivil(c.y, c.m, 1)
endOfMonth(date) ==
    LET c == CivilFromDays(date) IN DaysFromCivil(c.y, c.m, DaysInMonth(c.y, c.m))

\* startOfWeek(date, { weekStartsOn }): weekStartsOn 0 = Sunday (the default).
startOfWeek(date, weekStartsOn) == date - ((getDay(date) - weekStartsOn + 7) % 7)
endOfWeek(date, weekStartsOn) == startOfWeek(date, weekStartsOn) + 6

\* ISO 8601: weeks start on Monday and belong to the year of their Thursday.
getISOWeekYear(date) == getFullYear(startOfWeek(date, 1) + 3)
getISOWeek(date) ==
    LET th == startOfWeek(date, 1) + 3
    IN  (th - DaysFromCivil(getFullYear(th), 1, 1)) \div 7 + 1

startOfDay(date) == date

\* The days, the starts of the weeks (from Sunday) and the starts of the
\* months of the interval [start, end], in order.
eachDayOfInterval(start, end) == [i \in 1 .. (end - start + 1) |-> start + (i - 1)]

eachWeekOfInterval(start, end) ==
    Const(startOfWeek(start, 0), LAMBDA first :
        [i \in 1 .. ((startOfWeek(end, 0) - first) \div 7 + 1) |-> first + 7 * (i - 1)])

eachMonthOfInterval(start, end) ==
    Const(startOfMonth(start), LAMBDA first :
    Const(getFullYear(end) * 12 + getMonth(end)
             - (getFullYear(first) * 12 + getMonth(first)), LAMBDA months :
        [i \in 1 .. (months + 1) |-> addMonths(first, i - 1)]))

isSameDay(a, b) == a = b
isSameWeek(a, b) == startOfWeek(a, 0) = startOfWeek(b, 0)
isSameMonth(a, b) == startOfMonth(a) = startOfMonth(b)

----------------------------------------------------------------------------
(* Exact arithmetic *)

RECURSIVE GCD(_, _)
GCD(a, b) == IF b = 0 THEN a ELSE GCD(b, a % b)

RECURSIVE Pow(_, _)
Pow(b, n) == IF n = 0 THEN 1 ELSE b * Pow(b, n - 1)

\* Math.round(a / b) for b > 0: the nearest integer, halves rounded up.
\* Math.abs
Abs(n) == IF n < 0 THEN 0 - n ELSE n

RoundDiv(a, b) == (2 * a + b) \div (2 * b)

RECURSIVE SumSeq(_)
SumSeq(s) == IF s = <<>> THEN 0 ELSE Head(s) + SumSeq(Tail(s))

----------------------------------------------------------------------------
(* Recurring rule scheduler:                                               *)
(* features/recurringDebts/domain/recurringDebtScheduler.ts                *)

RecurrenceFrequency == {"weekly", "biweekly", "monthly", "quarterly", "annual"}

\* advanceNextDueDate that keeps the day of the month and lets it run over
\* into the following month (as Date.setMonth does).
advanceNextDueDateOverflow(currentDueDate, frequency) ==
    CASE frequency = "weekly"    -> addWeeks(currentDueDate, 1)
      [] frequency = "biweekly"  -> addWeeks(currentDueDate, 2)
      [] frequency = "monthly"   -> startOfMonth(addMonths(currentDueDate, 1))
                                        + (getDate(currentDueDate) - 1)
      [] frequency = "quarterly" -> startOfMonth(addQuarters(currentDueDate, 1))
                                        + (getDate(currentDueDate) - 1)
      [] frequency = "annual"    -> startOfMonth(addYears(currentDueDate, 1))
                                        + (getDate(currentDueDate) - 1)

advanceNextDueDate(currentDueDate, frequency) ==
    CASE frequency = "weekly"    -> addWeeks(currentDueDate, 1)
      [] frequency = "biweekly"  -> addWeeks(currentDueDate, 2)
      [] frequency = "monthly"   -> addMonths(currentDueDate, 1)
      [] frequency = "quarterly" -> addQuarters(currentDueDate, 1)
      [] frequency = "annual"    -> addYears(currentDueDate, 1)

\* The label string, as the tuple of the parts the template joins:
\* `${y}-W${week}`, `${y}-${mm}`, `${y}-Q${quarter}`, `${y}`.
computePeriodLabel(date, frequency) ==
    LET y == getFullYear(date)
        m == getMonth(date) + 1
    IN  CASE frequency \in {"weekly", "biweekly"} -> <<y, "-W", getISOWeek(date)>>
          [] frequency = "monthly"   -> <<y, "-", m>>
          [] frequency = "quarterly" -> <<y, "-Q", (m + 2) \div 3>>
          [] frequency = "annual"    -> <<y, "", 0>>

\* An optional date is the empty set or the singleton of the date.
NoDate == {}

\* getDueRules without the check for an existing link.
getDueRulesNoDedup(rs, links, day) ==
    SelectSeq(rs, LAMBDA rule :
        /\ rule.isActive
        /\ ~(rule.endDate # NoDate /\ \E endDate \in rule.endDate : day > endDate)
        /\ ~(~(rule.nextDueDate < day) /\ rule.nextDueDate # day))

\* getDueRules without the check of the end date.
getDueRulesNoEnd(rs, links, day) ==
    SelectSeq(rs, LAMBDA rule :
        /\ rule.isActive
        /\ ~(~(rule.nextDueDate < day) /\ rule.nextDueDate # day)
        /\ LET periodLabel == computePeriodLabel(rule.nextDueDate, rule.frequency)
           IN  ~(\E link \in BagToSet(links) :
                    /\ link.recurringDebtId = rule.id
                    /\ link.periodLabel = periodLabel))

getDueRules(rs, links, day) ==
    SelectSeq(rs, LAMBDA rule :
        /\ rule.isActive
        /\ ~(rule.endDate # NoDate /\ \E endDate \in rule.endDate : day > endDate)
        /\ ~(~(rule.nextDueDate < day) /\ rule.nextDueDate # day)
        /\ LET periodLabel == computePeriodLabel(rule.nextDueDate, rule.frequency)
           IN  ~(\E link \in BagToSet(links) :
                    /\ link.recurringDebtId = rule.id
                    /\ link.periodLabel = periodLabel))

RemoveAt(s, i) == [k \in 1 .. Len(s) - 1 |-> IF k < i THEN s[k] ELSE s[k + 1]]

\* The rules tried: rule 1 varies, rule 2 is a monthly rule due on the 31st.
SchedDueDates ==
    {DaysFromCivil(2025, 12, 29), DaysFromCivil(2026, 1, 31), DaysFromCivil(2026, 2, 10)}
SchedEndDates == {NoDate, {DaysFromCivil(2026, 2, 15)}}
SchedStartDays == {DaysFromCivil(2026, 1, 31), DaysFromCivil(2026, 2, 9)}
TimeSteps == {1, 7, 31}

Rule2 ==
    [id |-> 2, frequency |-> "monthly", nextDueDate |-> DaysFromCivil(2026, 1, 31),
     endDate |-> NoDate, isActive |-> TRUE]

InitSched ==
    /\ IdleApp
    /\ IdleAmort
    /\ IdleBudget
    /\ IdleAnalytics
    /\ IdleForecast
    /\ IdleCall
    /\ IdleDebt
    /\ \E f \in RecurrenceFrequency, d \in SchedDueDates,
          e \in SchedEndDates, a \in BOOLEAN :
          rules = << [id |-> 1, frequency |-> f, nextDueDate |-> d,
                      endDate |-> e, isActive |-> a], Rule2 >>
    /\ existingLinks = EmptyBag
    /\ today \in SchedStartDays
    /\ pending = <<>>
    /\ posted = {}
    /\ ticks = 0
    /\ lastOp = "init"

\* The due-check of the scheduler (on app open): getDueRules on the stored state.
DueCheck ==
    /\ pending' = getDueRules(rules, existingLinks, today)
    /\ lastOp' = "check"
    /\ UNCHANGED <<rules, existingLinks, today, posted, ticks, amortVars, budgetVars, analyticsVars, forecastVars, callVars, debtVars, appVars>>

\* A rule the due-check returned is posted: the movement is created and the
\* link of the rule's period recorded.
PostRule ==
    \E i \in DOMAIN pending :
        /\ existingLinks' = existingLinks (+) SetToBag({
               [recurringDebtId |-> pending[i].id,
                periodLabel |-> computePeriodLabel(pending[i].nextDueDate,
                                                   pending[i].frequency)]})
        /\ posted' = posted \cup {pending[i].id}
        /\ pending' = RemoveAt(pending, i)
        /\ lastOp' = "post"
        /\ UNCHANGED <<rules, today, ticks, amortVars, budgetVars, analyticsVars, forecastVars, callVars, debtVars, appVars>>

\* After creation, nextDueDate is advanced to the next occurrence.
AdvanceRule ==
    \E k \in DOMAIN rules :
        /\ rules[k].id \in posted
        /\ rules' = [rules EXCEPT ![k].nextDueDate =
                        advanceNextDueDate(rules[k].nextDueDate, rules[k].frequency)]
        /\ posted' = posted \ {rules[k].id}
        /\ lastOp' = "advance"
        /\ UNCHANGED <<existingLinks, today, pending, ticks, amortVars, budgetVars, analyticsVars, forecastVars, callVars, debtVars, appVars>>

\* Days pass between two openings of the app.
PassTime ==
    /\ ticks < MaxTicks
    /\ \E n \in TimeSteps : today' = addDays(today, n)
    /\ ticks' = ticks + 1
    /\ lastOp' = "time"
    /\ UNCHANGED <<rules, existingLinks, pending, posted, amortVars, budgetVars, analyticsVars, forecastVars, callVars, debtVars, appVars>>

NextSched == DueCheck \/ PostRule \/ AdvanceRule \/ PassTime

LinksOf(id) == {link \in BagToSet(existingLinks) : link.recurringDebtId = id}

SpecSched == InitSched /\ [][NextSched]_vars

\* C3: no rule ever has two postings with the same period label, and a rule
\* the due-check returns has no posting for the period of its nextDueDate
\* (so a rule already posted for a period is not returned for it again,
\* before or after the advance).
C3_OncePerPeriod ==
    /\ \A link \in BagToSet(existingLinks) : CopiesIn(link, existingLinks) = 1
    /\ \A i \in DOMAIN pending :
          \A link \in LinksOf(pending[i].id) :
              link.periodLabel
                 # computePeriodLabel(pending[i].nextDueDate, pending[i].frequency)
    /\ lastOp = "check" =>
          \A k \in DOMAIN rules : rules[k].id \in posted =>
              \A i \in DOMAIN pending : pending[i].id # rules[k].id

\* A due-check has just run after rule 1's third posting and before its
\* advance, and did not return rule 1.
C3_Witness ==
    /\ lastOp = "check"
    /\ 1 \in posted
    /\ Cardinality(LinksOf(1)) >= 3
    /\ rules[1].nextDueDate <= today

\* C4: getDueRules returns exactly the rules that are active, not past
\* their end date, with nextDueDate on or before today, and without a link
\* carrying their id and the label of (nextDueDate, frequency), in the
\* order of the rules.
IsDue(rule) ==
    /\ rule.isActive
    /\ (rule.endDate = NoDate \/ \A endDate \in rule.endDate : today <= endDate)
    /\ rule.nextDueDate <= today
    /\ ~\E link \in BagToSet(existingLinks) :
          /\ link.recurringDebtId = rule.id
          /\ link.periodLabel = computePeriodLabel(rule.nextDueDate, rule.frequency)

C4_DueRules ==
    lastOp = "check" =>
        /\ \A k \in DOMAIN rules :
              IsDue(rules[k]) <=> (\E i \in DOMAIN pending : pending[i] = rules[k])
        /\ \A i \in DOMAIN pending : \E k \in DOMAIN rules : pending[i] = rules[k]
        /\ \A i, j \in DOMAIN pending : i < j => pending[i].id < pending[j].id

\* A due-check that returned rule 2 and left out rule 1, which is active and
\* due but past its end date.
C4_Witness ==
    /\ lastOp = "check"
    /\ Len(pending) = 1 /\ pending[1].id = 2
    /\ rules[1].isActive
    /\ rules[1].nextDueDate <= today
    /\ rules[1].endDate # NoDate
    /\ LinksOf(1) # {}
    /\ LinksOf(2) # {}

\* C17: no period up to today is skipped: after a due-check, an active
\* rule whose nextDueDate is on or before today and on or before its
\* endDate, and whose period of nextDueDate has no posting, is among the
\* rules returned (to be posted or queued), also when today is past endDate.
C17_NoPeriodSkipped ==
    lastOp = "check" =>
        \A k \in DOMAIN rules :
            (/\ rules[k].isActive
             /\ rules[k].nextDueDate <= today
             /\ \A endDate \in rules[k].endDate : rules[k].nextDueDate <= endDate
             /\ ~\E link \in LinksOf(rules[k].id) :
                   link.periodLabel
                      = computePeriodLabel(rules[k].nextDueDate, rules[k].frequency))
            => \E i \in DOMAIN pending : pending[i].id = rules[k].id

----------------------------------------------------------------------------
(* The date functions of the scheduler, called on their own.               *)

\* The dates tried: the 1st, the 15th and the last days of every month of
\* the years CallYears, each paired with the date `gap` days later.
CallYears == 2024 .. 2027

CallDates ==
    {DaysFromCivil(y, m, d) : <<y, m, d>> \in
        {t \in CallYears \X (1 .. 12) \X {1, 15, 28, 29, 30, 31} :
            t[3] <= DaysInMonth(t[1], t[2])}}

CallGaps == (0 .. MaxGap) \cup {364}

InitCall ==
    /\ IdleApp
    /\ IdleAmort
    /\ IdleSched
    /\ IdleBudget
    /\ IdleAnalytics
    /\ IdleForecast
    /\ IdleDebt
    /\ \E d \in CallDates, gap \in CallGaps, f \in RecurrenceFrequency :
          callArgs = [date |-> d, other |-> addDays(d, gap), frequency |-> f]
    /\ callResult = <<>>
    /\ callStatus = "input"

\* advanceNextDueDate(date, frequency)
AdvanceCall ==
    /\ callStatus = "input"
    /\ callResult' = <<advanceNextDueDate(callArgs.date, callArgs.frequency)>>
    /\ callStatus' = "advanced"
    /\ UNCHANGED <<callArgs, amortVars, schedVars, budgetVars, analyticsVars, forecastVars, debtVars, appVars>>

\* computePeriodLabel(date, frequency) and computePeriodLabel(other, frequency)
LabelCall ==
    /\ callStatus = "input"
    /\ callResult' = <<computePeriodLabel(callArgs.date, callArgs.frequency),
                       computePeriodLabel(callArgs.other, callArgs.frequency)>>
    /\ callStatus' = "labelled"
    /\ UNCHANGED <<callArgs, amortVars, schedVars, budgetVars, analyticsVars, forecastVars, debtVars, appVars>>

NextCall == AdvanceCall \/ LabelCall

SpecCall == InitCall /\ [][NextCall]_vars

\* The months from year 0 to the month of a date.
MonthIndex(date) == CivilFromDays(date).y * 12 + CivilFromDays(date).m

\* The number of months a frequency adds (0 for the frequencies in weeks).
MonthsOf(frequency) ==
    CASE frequency = "monthly"   -> 1
      [] frequency = "quarterly" -> 3
      [] frequency = "annual"    -> 12
      [] OTHER                   -> 0

\* C12: advanceNextDueDate adds 7 days for weekly and 14 for biweekly; for
\* monthly, quarterly and annual it returns the date 1, 3 and 12 calendar
\* months later with the same day of month, or the last day of the target
\* month when that month is shorter; the result is later than the argument.
C12_AdvanceNextDueDate ==
    callStatus = "advanced" =>
        LET d == callArgs.date
            f == callArgs.frequency
            r == callResult[1]
        IN  /\ r > d
            /\ f = "weekly" => r = d + 7
            /\ f = "biweekly" => r = d + 14
            /\ f \in {"monthly", "quarterly", "annual"} =>
                  /\ MonthIndex(r) = MonthIndex(d) + MonthsOf(f)
                  /\ CivilFromDays(r).d
                        = Min(CivilFromDays(d).d,
                              DaysInMonth(CivilFromDays(r).y, CivilFromDays(r).m))

\* 2026-01-31 advanced by a month: 2026-02-28.
C12_Witness ==
    /\ callStatus = "advanced"
    /\ callArgs.date = DaysFromCivil(2026, 1, 31)
    /\ callArgs.frequency = "monthly"
    /\ callResult = <<DaysFromCivil(2026, 2, 28)>>

\* Two dates in the same period of a frequency.
SamePeriod(a, b, frequency) ==
    CASE frequency \in {"weekly", "biweekly"} ->
            getISOWeekYear(a) = getISOWeekYear(b) /\ getISOWeek(a) = getISOWeek(b)
      [] frequency = "monthly" ->
            getFullYear(a) = getFullYear(b) /\ getMonth(a) = getMonth(b)
      [] frequency = "quarterly" ->
            getFullYear(a) = getFullYear(b) /\ getMonth(a) \div 3 = getMonth(b) \div 3
      [] frequency = "annual" -> getFullYear(a) = getFullYear(b)

\* C16: computePeriodLabel gives two dates the same label exactly when they
\* are in the same period of the frequency (for weekly and biweekly: the
\* same ISO week of the same ISO week-year).
C16_LabelIffSamePeriod ==
    callStatus = "labelled" =>
        ((callResult[1] = callResult[2])
            <=> SamePeriod(callArgs.date, callArgs.other, callArgs.frequency))

----------------------------------------------------------------------------
(* Budget evaluator: features/budgets/domain/budgetEvaluator.ts            *)
(* An AlertThreshold is held in percent: 0.5 | 0.75 | 0.8 | 0.9 | 1.0 are  *)
(* 50, 75, 80, 90, 100.                                                    *)

BudgetPeriod == {"weekly", "monthly", "quarterly", "annual"}

startOfQuarter(date) ==
    LET c == CivilFromDays(date)
    IN  DaysFromCivil(c.y, 3 * ((c.m - 1) \div 3) + 1, 1)
endOfQuarter(date) == endOfMonth(addMonths(startOfQuarter(date), 2))
startOfYear(date) == DaysFromCivil(getFullYear(date), 1, 1)
endOfYear(date) == DaysFromCivil(getFullYear(date), 12, 31)

\* The label string as the tuple of the parts joined: format(today,
\* "yyyy-'W'II"), format(today, 'yyyy-MM'), `${year}-Q${quarter}`, String(year).
getCurrentPeriodBounds(period, day) ==
    CASE period = "weekly" ->
            [start |-> startOfWeek(day, 1), end |-> endOfWeek(day, 1),
             label |-> <<getFullYear(day), "-W", getISOWeek(day)>>]
      [] period = "monthly" ->
            [start |-> startOfMonth(day), end |-> endOfMonth(day),
             label |-> <<getFullYear(day), "-", getMonth(day) + 1>>]
      [] period = "quarterly" ->
            [start |-> startOfQuarter(day), end |-> endOfQuarter(day),
             label |-> <<getFullYear(day), "-Q", (getMonth(day) + 1 + 2) \div 3>>]
      [] period = "annual" ->
            [start |-> startOfYear(day), end |-> endOfYear(day),
             label |-> <<getFullYear(day), "", 0>>]

RECURSIVE SumAmounts(_)
SumAmounts(ms) ==
    IF ms = {} THEN 0
    ELSE LET m == CHOOSE x \in ms : TRUE IN m.amount + SumAmounts(ms \ {m})

\* The movements that count toward the budget in the period [start, end].
\* relevantMovements without the filter on the entity.
RelevantMovementsAnyEntity(b, ms, start, end) ==
    {m \in ms :
        /\ ~(m.typeOfMovement # "2")
        /\ ~(m.date < start \/ m.date > end)
        /\ m.category \in b.categoryIds}

RelevantMovements(b, ms, start, end) ==
    {m \in ms :
        /\ ~(m.typeOfMovement # "2")
        /\ ~(m.date < start \/ m.date > end)
        /\ m.category \in b.categoryIds
        /\ ~(b.entityIds # {} /\ (m.entity = "" \/ m.entity \notin b.entityIds))}

\* rolloverAmount without the cap.
RolloverAmountNoCap(b, prior) == IF b.rollover THEN prior ELSE 0

RolloverAmount(b, prior) ==
    IF b.rollover
    THEN IF b.rolloverCap # {}
         THEN Min(prior, CHOOSE c \in b.rolloverCap : TRUE)
         ELSE prior
    ELSE 0

\* (spentAmount / effectiveLimitAmount) >= threshold, the threshold in
\* percent; x / 0 is Infinity for x > 0 and NaN for x = 0.
Crossed(spentAmount, effectiveLimitAmount, threshold) ==
    IF effectiveLimitAmount > 0
    THEN 100 * spentAmount >= threshold * effectiveLimitAmount
    ELSE IF effectiveLimitAmount = 0 THEN spentAmount > 0
    ELSE 100 * spentAmount <= threshold * effectiveLimitAmount

\* new Set(firedAlerts.filter(...).map((a) => a.threshold))
FiredThresholds(alerts, label) ==
    {a.threshold : a \in {x \in alerts : x.periodLabel = label /\ ~x.dismissed}}

\* evaluateBudget with the status decided by > instead of >=.
evaluateBudgetStrict(b, ms, alerts, prior, day) ==
    Const(getCurrentPeriodBounds(b.period, day), LAMBDA bounds :
    Const(SumAmounts(RelevantMovements(b, ms, bounds.start, bounds.end)),
          LAMBDA spentAmount :
    Const(RolloverAmount(b, prior), LAMBDA rolloverAmount :
    Const(b.limitAmount + rolloverAmount, LAMBDA effectiveLimitAmount :
    Const(IF effectiveLimitAmount > 0
          THEN RoundDiv(100 * spentAmount, effectiveLimitAmount)
          ELSE 0, LAMBDA usagePercentage :
    Const(FiredThresholds(alerts, bounds.label), LAMBDA firedThresholds :
        [budget |-> b,
         periodStart |-> bounds.start,
         periodEnd |-> bounds.end,
         periodLabel |-> bounds.label,
         effectiveLimitAmount |-> effectiveLimitAmount,
         rolloverAmount |-> rolloverAmount,
         spentAmount |-> spentAmount,
         remainingAmount |-> effectiveLimitAmount - spentAmount,
         usagePercentage |-> usagePercentage,
         status |-> IF usagePercentage > 100 THEN "exceeded"
                    ELSE IF usagePercentage > 75 THEN "warning" ELSE "ok",
         pendingAlerts |-> SelectSeq(b.alertThresholds, LAMBDA threshold :
                              /\ Crossed(spentAmount, effectiveLimitAmount, threshold)
                              /\ threshold \notin firedThresholds),
         firedAlerts |-> {a \in alerts : a.periodLabel = bounds.label}]))))))

evaluateBudget(b, ms, alerts, prior, day) ==
    Const(getCurrentPeriodBounds(b.period, day), LAMBDA bounds :
    Const(SumAmounts(RelevantMovements(b, ms, bounds.start, bounds.end)),
          LAMBDA spentAmount :
    Const(RolloverAmount(b, prior), LAMBDA rolloverAmount :
    Const(b.limitAmount + rolloverAmount, LAMBDA effectiveLimitAmount :
    Const(IF effectiveLimitAmount > 0
          THEN RoundDiv(100 * spentAmount, effectiveLimitAmount)
          ELSE 0, LAMBDA usagePercentage :
    Const(FiredThresholds(alerts, bounds.label), LAMBDA firedThresholds :
        [budget |-> b,
         periodStart |-> bounds.start,
         periodEnd |-> bounds.end,
         periodLabel |-> bounds.label,
         effectiveLimitAmount |-> effectiveLimitAmount,
         rolloverAmount |-> rolloverAmount,
         spentAmount |-> spentAmount,
         remainingAmount |-> effectiveLimitAmount - spentAmount,
         usagePercentage |-> usagePercentage,
         status |-> IF usagePercentage >= 100 THEN "exceeded"
                    ELSE IF usagePercentage >= 75 THEN "warning" ELSE "ok",
         pendingAlerts |-> SelectSeq(b.alertThresholds, LAMBDA threshold :
                              /\ Crossed(spentAmount, effectiveLimitAmount, threshold)
                              /\ threshold \notin firedThresholds),
         firedAlerts |-> {a \in alerts : a.periodLabel = bounds.label}]))))))

\* The budgets tried: budget "1" of the documented tests (limit 500,000,
\* thresholds 0.8 and 1.0), over each period, global or scoped to entity "1",
\* without rollover, with a capped one and with an uncapped one.
Budgets ==
    {[id |-> "1", categoryIds |-> {"1"}, entityIds |-> es, limitAmount |-> 500000,
      period |-> p, alertThresholds |-> <<80, 100>>, rollover |-> r[1],
      rolloverCap |-> r[2]] :
        p \in BudgetPeriod, es \in {{}, {"1"}},
        r \in {<<FALSE, {}>>, <<TRUE, {50000}>>, <<TRUE, {}>>}}

\* The movements that may be recorded (2026-02-20 is a Friday).
MovementCatalog ==
    {[id |-> 1, amount |-> 300000, typeOfMovement |-> "2", category |-> "1",
      entity |-> "1", date |-> DaysFromCivil(2026, 2, 17)],
     [id |-> 2, amount |-> 150000, typeOfMovement |-> "2", category |-> "1",
      entity |-> "", date |-> DaysFromCivil(2026, 2, 20)],
     [id |-> 3, amount |-> 150000, typeOfMovement |-> "2", category |-> "1",
      entity |-> "2", date |-> DaysFromCivil(2026, 2, 16)],
     [id |-> 4, amount |-> 200000, typeOfMovement |-> "1", category |-> "1",
      entity |-> "1", date |-> DaysFromCivil(2026, 2, 18)],
     [id |-> 5, amount |-> 100000, typeOfMovement |-> "2", category |-> "2",
      entity |-> "1", date |-> DaysFromCivil(2026, 2, 19)],
     [id |-> 6, amount |-> 100000, typeOfMovement |-> "2", category |-> "1",
      entity |-> "1", date |-> DaysFromCivil(2025, 12, 31)]}

\* An alert of budget "1" left in the store by the period one year earlier.
OldAlert(b, day) ==
    LET label == getCurrentPeriodBounds(b.period, addYears(day, -1)).label
    IN  [id |-> <<"1", 80, label>>, budgetId |-> "1", threshold |-> 80,
         periodLabel |-> label, dismissed |-> FALSE]

InitBudget ==
    /\ IdleApp
    /\ IdleAmort
    /\ IdleSched
    /\ IdleAnalytics
    /\ IdleForecast
    /\ IdleCall
    /\ IdleDebt
    /\ budget \in Budgets
    /\ movements = {}
    /\ bToday = DaysFromCivil(2026, 2, 20)
    /\ firedAlerts \in {{}, {OldAlert(budget, bToday)}}
    /\ priorPeriodRemaining \in (IF budget.rollover THEN {100000, 102000, 0 - 500000}
                                  ELSE {0})
    /\ budgetStatus = <<>>

\* A movement is recorded; the budget status is re-derived on demand.
AddMovement ==
    \E m \in MovementCatalog \ movements :
        /\ movements' = movements \cup {m}
        /\ budgetStatus' = <<>>
        /\ UNCHANGED <<budget, firedAlerts, priorPeriodRemaining, bToday,
                       amortVars, schedVars, analyticsVars, forecastVars, callVars, debtVars, appVars>>

\* The status of the budget is derived from the stores.
EvaluateBudget ==
    /\ budgetStatus' = <<evaluateBudget(budget, movements, firedAlerts,
                                         priorPeriodRemaining, bToday)>>
    /\ UNCHANGED <<budget, movements, firedAlerts, priorPeriodRemaining, bToday,
                   amortVars, schedVars, analyticsVars, forecastVars, callVars, debtVars, appVars>>

AlertKeyTaken(budgetId, threshold, label) ==
    \E a \in firedAlerts :
        a.budgetId = budgetId /\ a.threshold = threshold /\ a.periodLabel = label

\* useBudgetAlerts: an alert is recorded for a pending threshold of the
\* status just derived; the store holds one alert per (budget_id,
\* threshold, period_label).
FireAlert ==
    /\ budgetStatus # <<>>
    /\ \E i \in DOMAIN budgetStatus[1].pendingAlerts :
         LET threshold == budgetStatus[1].pendingAlerts[i]
             label == budgetStatus[1].periodLabel
         IN  /\ ~AlertKeyTaken(budget.id, threshold, label)
             /\ firedAlerts' = firedAlerts \cup
                   {[id |-> <<budget.id, threshold, label>>, budgetId |-> budget.id,
                     threshold |-> threshold, periodLabel |-> label,
                     dismissed |-> FALSE]}
    /\ budgetStatus' = <<>>
    /\ UNCHANGED <<budget, movements, priorPeriodRemaining, bToday,
                   amortVars, schedVars, analyticsVars, forecastVars, callVars, debtVars, appVars>>

\* An alert of another budget ("2") of the same period kind is recorded in
\* the alerts store for the current period.
FireOtherBudgetAlert ==
    /\ \E threshold \in {80} :
         LET label == getCurrentPeriodBounds(budget.period, bToday).label
         IN  /\ ~AlertKeyTaken("2", threshold, label)
             /\ firedAlerts' = firedAlerts \cup
                   {[id |-> <<"2", threshold, label>>, budgetId |-> "2",
                     threshold |-> threshold, periodLabel |-> label,
                     dismissed |-> FALSE]}
    /\ budgetStatus' = <<>>
    /\ UNCHANGED <<budget, movements, priorPeriodRemaining, bToday,
                   amortVars, schedVars, analyticsVars, forecastVars, callVars, debtVars, appVars>>

\* The user dismisses an alert in the alert sheet.
DismissAlert ==
    /\ \E a \in firedAlerts :
         /\ ~a.dismissed
         /\ firedAlerts' = (firedAlerts \ {a}) \cup {[a EXCEPT !.dismissed = TRUE]}
    /\ budgetStatus' = <<>>
    /\ UNCHANGED <<budget, movements, priorPeriodRemaining, bToday,
                   amortVars, schedVars, analyticsVars, forecastVars, callVars, debtVars, appVars>>

NextBudget ==
    \/ AddMovement
    \/ EvaluateBudget
    \/ FireAlert
    \/ FireOtherBudgetAlert
    \/ DismissAlert

SpecBudget == InitBudget /\ [][NextBudget]_vars

\* C5: a threshold that has a fired alert of this budget for the current
\* period label, dismissed or not, is never in pendingAlerts again.
C5_FiresOncePerPeriod ==
    budgetStatus # <<>> =>
        \A i \in DOMAIN budgetStatus[1].pendingAlerts :
            ~AlertKeyTaken(budget.id, budgetStatus[1].pendingAlerts[i],
                           budgetStatus[1].periodLabel)

\* C6: pendingAlerts is exactly the set of configured thresholds that are
\* crossed and have no un-dismissed alert of this budget, for the threshold
\* and the current period label.
C6_PendingAlerts ==
    budgetStatus # <<>> =>
        LET st == budgetStatus[1]
        IN  {st.pendingAlerts[i] : i \in DOMAIN st.pendingAlerts}
              = {budget.alertThresholds[k] : k \in
                   {j \in DOMAIN budget.alertThresholds :
                      /\ Crossed(st.spentAmount, st.effectiveLimitAmount,
                                 budget.alertThresholds[j])
                      /\ ~\E a \in firedAlerts :
                            /\ ~a.dismissed
                            /\ a.budgetId = budget.id
                            /\ a.threshold = budget.alertThresholds[j]
                            /\ a.periodLabel = st.periodLabel}}

\* C18: spentAmount is the sum of the amounts of the movements that are
\* expenses, dated from the start to the end of the current period, of a
\* category of the budget and, when the budget has entities, of one of its
\* entities.
C18_SpentAmount ==
    budgetStatus # <<>> =>
        budgetStatus[1].spentAmount =
            SumAmounts({m \in movements :
                /\ m.typeOfMovement = "2"
                /\ budgetStatus[1].periodStart <= m.date
                /\ m.date <= budgetStatus[1].periodEnd
                /\ m.category \in budget.categoryIds
                /\ (budget.entityIds = {} \/ m.entity \in budget.entityIds)})

\* The status of a budget scoped to an entity, over an expense that counts
\* and an income, an expense without entity, one of another entity, one of
\* another category and one of an earlier period, which do not.
C18_Witness ==
    /\ budgetStatus # <<>>
    /\ budget.entityIds # {}
    /\ movements = MovementCatalog
    /\ budgetStatus[1].spentAmount = 300000

\* C19: usagePercentage is spentAmount / effectiveLimitAmount * 100 rounded
\* to the nearest integer, and 0 when effectiveLimitAmount is not positive;
\* the status is exceeded from 100 on, warning from 75 to 99, ok below.
C19_UsageAndStatus ==
    budgetStatus # <<>> =>
        LET st == budgetStatus[1]
        IN  /\ st.effectiveLimitAmount > 0 =>
                  2 * Abs(100 * st.spentAmount - st.usagePercentage * st.effectiveLimitAmount)
                     <= st.effectiveLimitAmount
            /\ st.effectiveLimitAmount <= 0 => st.usagePercentage = 0
            /\ st.status = "exceeded" <=> st.usagePercentage >= 100
            /\ st.status = "warning" <=> (75 <= st.usagePercentage /\ st.usagePercentage < 100)
            /\ st.status = "ok" <=> st.usagePercentage < 75
            /\ st.status \in {"exceeded", "warning", "ok"}

\* 450,000 spent of 600,000: exactly 75, a warning.
C19_Witness ==
    /\ budgetStatus # <<>>
    /\ budgetStatus[1].spentAmount = 450000
    /\ budgetStatus[1].effectiveLimitAmount = 600000
    /\ budgetStatus[1].usagePercentage = 75
    /\ budgetStatus[1].status = "warning"

\* C20: rolloverAmount is 0 without rollover, the lesser of
\* priorPeriodRemaining and rolloverCap with a cap, priorPeriodRemaining
\* without one; effectiveLimitAmount is limitAmount + rolloverAmount and
\* remainingAmount is effectiveLimitAmount - spentAmount.
C20_Rollover ==
    budgetStatus # <<>> =>
        LET st == budgetStatus[1]
        IN  /\ ~budget.rollover => st.rolloverAmount = 0
            /\ (budget.rollover /\ budget.rolloverCap = {}) =>
                  st.rolloverAmount = priorPeriodRemaining
            /\ \A cap \in budget.rolloverCap :
                  budget.rollover =>
                      /\ st.rolloverAmount <= priorPeriodRemaining
                      /\ st.rolloverAmount <= cap
                      /\ st.rolloverAmount \in {priorPeriodRemaining, cap}
            /\ st.effectiveLimitAmount = budget.limitAmount + st.rolloverAmount
            /\ st.remainingAmount = st.effectiveLimitAmount - st.spentAmount

\* A capped rollover that the cap cuts, with something spent.
C20_Witness ==
    /\ budgetStatus # <<>>
    /\ budget.rollover
    /\ budget.rolloverCap = {50000}
    /\ priorPeriodRemaining = 100000
    /\ budgetStatus[1].rolloverAmount = 50000
    /\ budgetStatus[1].effectiveLimitAmount = 550000
    /\ budgetStatus[1].remainingAmount = 100000

\* C29: with a positive effective limit the status is exceeded exactly
\* when spentAmount >= effectiveLimitAmount, that is, exactly when the
\* threshold 1.0 counts as crossed.
C29_ExceededIffCrossed ==
    (budgetStatus # <<>> /\ budgetStatus[1].effectiveLimitAmount > 0) =>
        LET st == budgetStatus[1]
        IN  /\ st.status = "exceeded" <=> st.spentAmount >= st.effectiveLimitAmount
            /\ st.status = "exceeded"
                  <=> Crossed(st.spentAmount, st.effectiveLimitAmount, 100)

----------------------------------------------------------------------------
(* Analytics aggregator: features/analytics/domain/analyticsAggregator.ts  *)

Granularity == {"daily", "weekly", "monthly"}

isSamePeriod(granularity, a, b) ==
    CASE granularity = "daily"   -> isSameDay(a, b)
      [] granularity = "weekly"  -> isSameWeek(a, b)
      [] granularity = "monthly" -> isSameMonth(a, b)

\* The period buckets of [startDate, endDate].
TimeSeriesPeriods(startDate, endDate, granularity) ==
    CASE granularity = "daily" ->
            [i \in DOMAIN eachDayOfInterval(startDate, endDate) |->
                startOfDay(eachDayOfInterval(startDate, endDate)[i])]
      [] granularity = "weekly" ->
            Const(eachWeekOfInterval(startDate, endDate), LAMBDA weeks :
                [i \in DOMAIN weeks |-> startOfWeek(weeks[i], 0)])
      [] granularity = "monthly" ->
            Const(eachMonthOfInterval(startDate, endDate), LAMBDA months :
                [i \in DOMAIN months |-> startOfMonth(months[i])])

\* The point of one period: the movements of the period, summed by type.
TimeSeriesPoint(ms, periodStart, granularity) ==
    Const({m \in ms : isSamePeriod(granularity, m.date, periodStart)},
          LAMBDA periodMovements :
    Const(SumAmounts({m \in periodMovements : m.typeOfMovement = "1"}), LAMBDA income :
    Const(SumAmounts({m \in periodMovements : m.typeOfMovement = "2"}), LAMBDA expenses :
        [date |-> periodStart, income |-> income, expenses |-> expenses,
         net |-> income - expenses])))

\* buildTimeSeries that leaves out the periods without movements.
buildTimeSeriesNoGaps(ms, startDate, endDate, granularity) ==
    Const(TimeSeriesPeriods(startDate, endDate, granularity), LAMBDA periods :
        SelectSeq([i \in DOMAIN periods |-> TimeSeriesPoint(ms, periods[i], granularity)],
                  LAMBDA point : \E m \in ms : isSamePeriod(granularity, m.date, point.date)))

buildTimeSeries(ms, startDate, endDate, granularity) ==
    Const(TimeSeriesPeriods(startDate, endDate, granularity), LAMBDA periods :
        [i \in DOMAIN periods |-> TimeSeriesPoint(ms, periods[i], granularity)])

\* The reports tried: ranges of 1 to MaxSpan + 1 days from a Thursday late
\* in January or from the last Sunday of a year, over movements in and out
\* of the range, some with the empty type the form can submit.
AnalyticsStarts == {DaysFromCivil(2026, 1, 29), DaysFromCivil(2025, 12, 28)}

AnalyticsMovements ==
    {[id |-> 1, amount |-> 300000, typeOfMovement |-> "2", category |-> "1",
      entity |-> "1", date |-> DaysFromCivil(2026, 1, 30)],
     [id |-> 2, amount |-> 150000, typeOfMovement |-> "1", category |-> "1",
      entity |-> "", date |-> DaysFromCivil(2026, 1, 30)],
     [id |-> 3, amount |-> 70000, typeOfMovement |-> "2", category |-> "2",
      entity |-> "1", date |-> DaysFromCivil(2026, 2, 10)],
     [id |-> 4, amount |-> 20000, typeOfMovement |-> "", category |-> "1",
      entity |-> "1", date |-> DaysFromCivil(2025, 12, 31)]}

InitAnalytics ==
    /\ IdleApp
    /\ IdleAmort
    /\ IdleSched
    /\ IdleBudget
    /\ IdleForecast
    /\ IdleCall
    /\ IdleDebt
    /\ \E ms \in SUBSET AnalyticsMovements, start \in AnalyticsStarts,
          span \in 0 .. MaxSpan, g \in Granularity :
          anParams = [movements |-> ms, startDate |-> start,
                      endDate |-> addDays(start, span), granularity |-> g]
    /\ timeSeries = <<>>
    /\ anStatus = "input"

\* One call of buildAnalyticsReport: its timeSeries.
BuildReport ==
    /\ anStatus = "input"
    /\ timeSeries' = buildTimeSeries(anParams.movements, anParams.startDate,
                                     anParams.endDate, anParams.granularity)
    /\ anStatus' = "done"
    /\ UNCHANGED <<anParams, amortVars, schedVars, budgetVars, forecastVars, callVars, debtVars, appVars>>

NextAnalytics == BuildReport

SpecAnalytics == InitAnalytics /\ [][NextAnalytics]_vars

\* The bucket a day falls in, named by the bucket's first day.
BucketOf(day, granularity) ==
    CASE granularity = "daily"   -> day
      [] granularity = "weekly"  -> day - getDay(day)
      [] granularity = "monthly" -> day - (getDate(day) - 1)

BucketsInRange ==
    {BucketOf(d, anParams.granularity) : d \in anParams.startDate .. anParams.endDate}

\* C7: timeSeries has exactly one point per period bucket of [startDate,
\* endDate], in chronological order, and the point of a bucket without
\* movements has income, expenses and net 0.
C7_ZeroGap ==
    anStatus = "done" =>
        /\ {timeSeries[i].date : i \in DOMAIN timeSeries} = BucketsInRange
        /\ Len(timeSeries) = Cardinality(BucketsInRange)
        /\ \A i \in 1 .. Len(timeSeries) - 1 : timeSeries[i].date < timeSeries[i + 1].date
        /\ \A i \in DOMAIN timeSeries :
              (~\E m \in anParams.movements :
                    BucketOf(m.date, anParams.granularity) = timeSeries[i].date)
              => /\ timeSeries[i].income = 0
                 /\ timeSeries[i].expenses = 0
                 /\ timeSeries[i].net = 0

\* A report of several weeks in which a week with movements is followed by
\* a week without any and then by one with movements again.
C7_Witness ==
    /\ anStatus = "done"
    /\ anParams.granularity = "weekly"
    /\ Len(timeSeries) >= 3
    /\ \E i \in 1 .. Len(timeSeries) - 2 :
          /\ timeSeries[i].expenses > 0
          /\ timeSeries[i + 1].income = 0 /\ timeSeries[i + 1].expenses = 0
          /\ timeSeries[i + 1].net = 0
          /\ timeSeries[i + 2].expenses > 0

----------------------------------------------------------------------------
(* Forecast engine: features/forecast/domain/forecastEngine.ts             *)

PeriodType == {"daily", "weekly", "monthly"}

\* The period buckets from startDate to endDate.
ForecastPeriods(startDate, endDate, periodType) ==
    CASE periodType = "daily" ->
            [i \in DOMAIN eachDayOfInterval(startDate, endDate) |->
                startOfDay(eachDayOfInterval(startDate, endDate)[i])]
      [] periodType = "weekly"  -> eachWeekOfInterval(startDate, endDate)
      [] periodType = "monthly" -> eachMonthOfInterval(startDate, endDate)

\* The events of the recurring rules in the period that starts at periodStart.
RecurringEvents(recurringDebts, periodType, periodStart) ==
    Const(SelectSeq(recurringDebts, LAMBDA rule :
              rule.isActive /\ isSamePeriod(periodType, rule.nextDueDate, periodStart)),
          LAMBDA due :
        [i \in DOMAIN due |->
            [label |-> due[i].name, amount |-> 0 - due[i].amount, type |-> "recurring",
             sourceId |-> due[i].id, isEstimated |-> due[i].estimatedAmount]])

\* The events of the unpaid entries of one debt's table in the period.
DebtEntryEvents(debt, periodType, periodStart) ==
    Const(SelectSeq(debt.amortizationTable, LAMBDA entry :
              entry.status # "paid" /\ isSamePeriod(periodType, entry.dueDate, periodStart)),
          LAMBDA due :
        [i \in DOMAIN due |->
            [label |-> <<debt.name, " payment">>, amount |-> 0 - due[i].paymentAmount,
             type |-> "debt_payment", sourceId |-> debt.id, isEstimated |-> FALSE]])

RECURSIVE DebtEvents(_, _, _)
DebtEvents(longTermDebts, periodType, periodStart) ==
    IF longTermDebts = <<>> THEN <<>>
    ELSE (IF Head(longTermDebts).isActive
          THEN DebtEntryEvents(Head(longTermDebts), periodType, periodStart)
          ELSE <<>>)
         \o DebtEvents(Tail(longTermDebts), periodType, periodStart)

GoalEvents(goalContributions, periodType, periodStart) ==
    Const(SelectSeq(goalContributions, LAMBDA contrib :
              isSamePeriod(periodType, contrib.date, periodStart)),
          LAMBDA due :
        [i \in DOMAIN due |->
            [label |-> <<"Goal: ", due[i].label>>, amount |-> 0 - due[i].amount,
             type |-> "goal_contribution", sourceId |-> due[i].goalId,
             isEstimated |-> FALSE]])

PeriodEvents(params, periodStart) ==
    RecurringEvents(params.recurringDebts, params.periodType, periodStart)
    \o DebtEvents(params.longTermDebts, params.periodType, periodStart)
    \o GoalEvents(params.goalContributions, params.periodType, periodStart)

EventAmounts(events) == [i \in DOMAIN events |-> events[i].amount]

\* ForecastEntry that takes the expenses from the balance and forgets the income.
ForecastEntryNoIncome(periodStart, runningBalance, events) ==
    Const(SumSeq(EventAmounts(SelectSeq(events, LAMBDA e : e.amount > 0))),
          LAMBDA projectedIncome :
    Const(SumSeq([i \in DOMAIN SelectSeq(events, LAMBDA e : e.amount < 0) |->
                    Abs(SelectSeq(events, LAMBDA e : e.amount < 0)[i].amount)]),
          LAMBDA projectedExpenses :
    Const(runningBalance - projectedExpenses, LAMBDA closingBalance :
        [date |-> periodStart,
         openingBalance |-> runningBalance,
         projectedIncome |-> projectedIncome,
         projectedExpenses |-> projectedExpenses,
         netCashFlow |-> projectedIncome - projectedExpenses,
         closingBalance |-> closingBalance,
         isNegative |-> closingBalance < 0,
         events |-> events])))

\* The entry of one period, from the balance the period opens with.
ForecastEntry(periodStart, runningBalance, events) ==
    Const(SumSeq(EventAmounts(SelectSeq(events, LAMBDA e : e.amount > 0))),
          LAMBDA projectedIncome :
    Const(SumSeq([i \in DOMAIN SelectSeq(events, LAMBDA e : e.amount < 0) |->
                    Abs(SelectSeq(events, LAMBDA e : e.amount < 0)[i].amount)]),
          LAMBDA projectedExpenses :
    Const(projectedIncome - projectedExpenses, LAMBDA netCashFlow :
    Const(runningBalance + netCashFlow, LAMBDA closingBalance :
        [date |-> periodStart,
         openingBalance |-> runningBalance,
         projectedIncome |-> projectedIncome,
         projectedExpenses |-> projectedExpenses,
         netCashFlow |-> netCashFlow,
         closingBalance |-> closingBalance,
         isNegative |-> closingBalance < 0,
         events |-> events]))))

\* The loop over periods[from .. to], entered with runningBalance: the
\* entries it pushes.  The second half of the range is entered with the
\* closing balance the first half ends on, as the loop carries it.
RECURSIVE ForecastLoop(_, _, _, _, _)
ForecastLoop(params, periods, from, to, runningBalance) ==
    IF from > to THEN <<>>
    ELSE IF from = to
    THEN <<ForecastEntry(periods[from], runningBalance, PeriodEvents(params, periods[from]))>>
    ELSE Const(ForecastLoop(params, periods, from, (from + to) \div 2, runningBalance),
               LAMBDA entries :
             entries \o ForecastLoop(params, periods, (from + to) \div 2 + 1, to,
                                     entries[Len(entries)].closingBalance))

\* entries.reduce((min, e) => e.closingBalance < min.closingBalance ? e : min, min)
\* over entries[from .. to]: the second half of the range is reduced from
\* the result of the first.
RECURSIVE LowestFrom(_, _, _, _)
LowestFrom(entries, from, to, min) ==
    IF from > to THEN min
    ELSE IF from = to
    THEN (IF entries[from].closingBalance < min.closingBalance THEN entries[from] ELSE min)
    ELSE Const(LowestFrom(entries, from, (from + to) \div 2, min), LAMBDA next :
             LowestFrom(entries, (from + to) \div 2 + 1, to, next))

LowestEntry(entries) == LowestFrom(entries, 1, Len(entries), entries[1])

\* entries.find that returns the last negative entry instead of the first.
FirstNegativeEntryLast(entries) ==
    IF \E i \in DOMAIN entries : entries[i].isNegative
    THEN {entries[CHOOSE i \in DOMAIN entries :
                     /\ entries[i].isNegative
                     /\ \A j \in DOMAIN entries : entries[j].isNegative => j <= i]}
    ELSE {}

\* entries.find((e) => e.isNegative): the entry found, or nothing.
FirstNegativeEntry(entries) ==
    IF \E i \in DOMAIN entries : entries[i].isNegative
    THEN {entries[CHOOSE i \in DOMAIN entries :
                     /\ entries[i].isNegative
                     /\ \A j \in 1 .. i - 1 : ~entries[j].isNegative]}
    ELSE {}

generateForecast(params) ==
    Const(addMonths(params.startDate, params.horizonMonths), LAMBDA endDate :
    Const(ForecastPeriods(params.startDate, endDate, params.periodType), LAMBDA periods :
    Const(ForecastLoop(params, periods, 1, Len(periods), params.initialBalance),
          LAMBDA entries :
    Const(LowestEntry(entries), LAMBDA lowestEntry :
        [startDate |-> params.startDate,
         endDate |-> endDate,
         periodType |-> params.periodType,
         initialBalance |-> params.initialBalance,
         entries |-> entries,
         lowestProjectedBalance |-> lowestEntry.closingBalance,
         lowestProjectedDate |-> lowestEntry.date,
         firstNegativeDate |-> {e.date : e \in FirstNegativeEntry(entries)}]))))

\* The forecasts tried.  The rules: a monthly one due in the first month, a
\* weekly one with an estimated amount, and a paused one.  The debt: three
\* instalments, the first already paid.  The contributions: one to a goal,
\* and one entered with a negative amount, which the form does not reject.
ForecastStarts == {DaysFromCivil(2026, 1, 1), DaysFromCivil(2026, 1, 31)}

ForecastBalances == {0, 60000, 1000000}

RuleRent ==
    [id |-> "r1", name |-> "Rent", amount |-> 50000, frequency |-> "monthly",
     nextDueDate |-> DaysFromCivil(2026, 1, 15), isActive |-> TRUE,
     autoPost |-> TRUE, estimatedAmount |-> FALSE]

RulePower ==
    [id |-> "r2", name |-> "Power", amount |-> 20000, frequency |-> "weekly",
     nextDueDate |-> DaysFromCivil(2026, 2, 3), isActive |-> TRUE,
     autoPost |-> FALSE, estimatedAmount |-> TRUE]

RulePaused ==
    [id |-> "r3", name |-> "Gym", amount |-> 90000, frequency |-> "monthly",
     nextDueDate |-> DaysFromCivil(2026, 2, 1), isActive |-> FALSE,
     autoPost |-> FALSE, estimatedAmount |-> FALSE]

ForecastRules ==
    {<<>>, <<RuleRent>>, <<RulePower>>, <<RuleRent, RulePower>>,
     <<RulePaused, RuleRent, RulePower>>}

DebtTable ==
    <<[periodNumber |-> 1, dueDate |-> DaysFromCivil(2026, 2, 10), paymentAmount |-> 40200,
       status |-> "paid"],
      [periodNumber |-> 2, dueDate |-> DaysFromCivil(2026, 3, 10), paymentAmount |-> 40200,
       status |-> "pending"],
      [periodNumber |-> 3, dueDate |-> DaysFromCivil(2026, 4, 10), paymentAmount |-> 40300,
       status |-> "pending"]>>

ForecastDebts ==
    {<<>>,
     <<[id |-> "d1", name |-> "Car", isActive |-> TRUE, amortizationTable |-> DebtTable]>>,
     <<[id |-> "d1", name |-> "Car", isActive |-> FALSE, amortizationTable |-> DebtTable]>>}

ForecastContributions ==
    {<<>>,
     <<[label |-> "Trip", amount |-> 30000, date |-> DaysFromCivil(2026, 2, 20),
        goalId |-> "g1"]>>,
     <<[label |-> "Trip", amount |-> 30000, date |-> DaysFromCivil(2026, 2, 20),
        goalId |-> "g1"],
       [label |-> "Trip", amount |-> 0 - 45000, date |-> DaysFromCivil(2026, 3, 5),
        goalId |-> "g1"]>>}

InitForecast ==
    /\ IdleApp
    /\ IdleAmort
    /\ IdleSched
    /\ IdleBudget
    /\ IdleAnalytics
    /\ IdleCall
    /\ IdleDebt
    /\ fcParams \in [initialBalance : ForecastBalances,
                     recurringDebts : ForecastRules,
                     longTermDebts : ForecastDebts,
                     goalContributions : ForecastContributions,
                     startDate : ForecastStarts,
                     horizonMonths : 1 .. MaxHorizon,
                     periodType : PeriodType]
    /\ forecast = [entries |-> <<>>]
    /\ fcStatus = "input"

\* One call of generateForecast.
GenerateForecast ==
    /\ fcStatus = "input"
    /\ forecast' = generateForecast(fcParams)
    /\ fcStatus' = "done"
    /\ UNCHANGED <<fcParams, amortVars, schedVars, budgetVars, analyticsVars, callVars, debtVars, appVars>>

NextForecast == GenerateForecast

SpecForecast == InitForecast /\ [][NextForecast]_vars

\* C8: the entries are in strictly chronological order, the first opens with
\* initialBalance, every entry closes with openingBalance + projectedIncome
\* - projectedExpenses, and every entry opens with the closing balance of
\* the entry before it.
C8_BalanceChain ==
    fcStatus = "done" =>
        LET entries == forecast.entries
        IN  /\ \A i \in 1 .. Len(entries) - 1 : entries[i].date < entries[i + 1].date
            /\ entries[1].openingBalance = fcParams.initialBalance
            /\ \A i \in DOMAIN entries :
                  entries[i].closingBalance
                      = entries[i].openingBalance + entries[i].projectedIncome
                        - entries[i].projectedExpenses
            /\ \A i \in 1 .. Len(entries) - 1 :
                  entries[i + 1].openingBalance = entries[i].closingBalance

\* A forecast of several entries in which one entry has both income and
\* expenses and a later entry opens with a balance other than initialBalance.
C8_Witness ==
    /\ fcStatus = "done"
    /\ Len(forecast.entries) >= 3
    /\ \E i \in DOMAIN forecast.entries :
          /\ forecast.entries[i].projectedIncome > 0
          /\ forecast.entries[i].projectedExpenses > 0
    /\ \E i \in DOMAIN forecast.entries :
          forecast.entries[i].openingBalance # fcParams.initialBalance

\* C9: lowestProjectedBalance is the least closing balance of the entries
\* and lowestProjectedDate the date of the earliest entry that closes with
\* it; firstNegativeDate is the date of the earliest entry that closes below
\* zero, and is undefined exactly when no entry closes below zero.
C9_LowestAndFirstNegative ==
    fcStatus = "done" =>
        LET entries == forecast.entries
            negative == {i \in DOMAIN entries : entries[i].closingBalance < 0}
        IN  /\ \A i \in DOMAIN entries :
                  forecast.lowestProjectedBalance <= entries[i].closingBalance
            /\ \E i \in DOMAIN entries :
                  /\ entries[i].closingBalance = forecast.lowestProjectedBalance
                  /\ entries[i].date = forecast.lowestProjectedDate
                  /\ \A j \in 1 .. i - 1 :
                        entries[j].closingBalance # forecast.lowestProjectedBalance
            /\ (forecast.firstNegativeDate = {}) <=> (negative = {})
            /\ \A i \in negative :
                  (\A j \in negative : i <= j)
                  => forecast.firstNegativeDate = {entries[i].date}

\* A forecast that first closes below zero after its first entry, closes
\* below zero again later, and reaches its lowest balance in several entries.
C9_Witness ==
    /\ fcStatus = "done"
    /\ forecast.firstNegativeDate # {}
    /\ forecast.entries[1].closingBalance >= 0
    /\ Cardinality({i \in DOMAIN forecast.entries :
                       forecast.entries[i].closingBalance < 0}) >= 2
    /\ Cardinality({i \in DOMAIN forecast.entries :
                       forecast.entries[i].closingBalance
                           = forecast.lowestProjectedBalance}) >= 2

\* The due dates of a rule from its nextDueDate on, up to the day `last`.
RECURSIVE OccurrencesUpTo(_, _, _)
OccurrencesUpTo(date, frequency, last) ==
    IF date > last THEN {}
    ELSE {date} \cup OccurrencesUpTo(advanceNextDueDate(date, frequency), frequency, last)

RecurringEventsOf(entry, rule) ==
    {j \in DOMAIN entry.events :
        entry.events[j].type = "recurring" /\ entry.events[j].sourceId = rule.id}

\* C10: every entry has one expense event of rule.amount for every
\* occurrence of every active recurring rule that falls in the entry's
\* bucket.
C10_EveryOccurrence ==
    fcStatus = "done" =>
        \A i \in DOMAIN forecast.entries :
            \A k \in DOMAIN fcParams.recurringDebts :
                LET rule == fcParams.recurringDebts[k]
                    entry == forecast.entries[i]
                IN  rule.isActive =>
                        /\ Cardinality(RecurringEventsOf(entry, rule))
                               = Cardinality({o \in OccurrencesUpTo(rule.nextDueDate,
                                                  rule.frequency, forecast.endDate + 31) :
                                                 BucketOf(o, fcParams.periodType) = entry.date})
                        /\ \A j \in RecurringEventsOf(entry, rule) :
                              entry.events[j].amount = 0 - rule.amount

\* C11: with initialBalance 0, no debts and no contributions, and a single
\* active recurring rule due within the horizon, firstNegativeDate is the
\* due date of the rule, for every periodType.
C11_FirstNegativeIsDueDate ==
    (/\ fcStatus = "done"
     /\ fcParams.initialBalance = 0
     /\ fcParams.longTermDebts = <<>>
     /\ fcParams.goalContributions = <<>>
     /\ Len(fcParams.recurringDebts) = 1
     /\ fcParams.recurringDebts[1].isActive
     /\ fcParams.recurringDebts[1].amount > 0
     /\ fcParams.startDate <= fcParams.recurringDebts[1].nextDueDate
     /\ fcParams.recurringDebts[1].nextDueDate <= forecast.endDate)
    => forecast.firstNegativeDate = {fcParams.recurringDebts[1].nextDueDate}

----------------------------------------------------------------------------
(* Amortization engine: features/longTermDebts/domain/amortization.ts *)

\* The annual rates tried, as fractions: 60%, 120%, 300%, 360%.
AnnualRates == {<<3, 5>>, <<6, 5>>, <<3, 1>>, <<18, 5>>}

\* const monthlyRate = annualRate / 12, in lowest terms.
MonthlyRate(annualRate) ==
    LET n == annualRate[1]
        d == 12 * annualRate[2]
        g == GCD(n, d)
    IN  <<n \div g, d \div g>>

\* Math.round(P r (1+r)^n / ((1+r)^n - 1)) with r = num / den.
MonthlyPayment(principal, r, termMonths) ==
    LET A == Pow(r[1] + r[2], termMonths)
        B == Pow(r[2], termMonths)
    IN  RoundDiv(principal * r[1] * A, r[2] * (A - B))

\* AmortEntry without the final-payment override of principalAmount.
AmortEntryNoFinal(i, remaining, monthlyPayment, r, termMonths, startDate) ==
    LET interestAmount == RoundDiv(remaining * r[1], r[2])
        principalAmount == monthlyPayment - interestAmount
        after == remaining - principalAmount
    IN  [periodNumber |-> i,
         dueDate |-> addMonths(startDate, i),
         paymentAmount |-> IF i = termMonths THEN principalAmount + interestAmount
                           ELSE monthlyPayment,
         principalAmount |-> principalAmount,
         interestAmount |-> interestAmount,
         remainingPrincipal |-> Max(0, after),
         status |-> "pending",
         balance |-> after]

\* AmortEntry with the final-payment override one period early.
AmortEntryEarlyFinal(i, remaining, monthlyPayment, r, termMonths, startDate) ==
    LET interestAmount == RoundDiv(remaining * r[1], r[2])
        principalAmount == IF i >= termMonths - 1 THEN remaining
                           ELSE monthlyPayment - interestAmount
        after == remaining - principalAmount
    IN  [periodNumber |-> i,
         dueDate |-> addMonths(startDate, i),
         paymentAmount |-> IF i = termMonths THEN principalAmount + interestAmount
                           ELSE monthlyPayment,
         principalAmount |-> principalAmount,
         interestAmount |-> interestAmount,
         remainingPrincipal |-> Max(0, after),
         status |-> "pending",
         balance |-> after]

\* The body of the for loop: the entry of period i and the balance after it.
AmortEntry(i, remaining, monthlyPayment, r, termMonths, startDate) ==
    LET interestAmount == RoundDiv(remaining * r[1], r[2])
        principalAmount == IF i = termMonths THEN remaining
                           ELSE monthlyPayment - interestAmount
        after == remaining - principalAmount
    IN  [periodNumber |-> i,
         dueDate |-> addMonths(startDate, i),
         paymentAmount |-> IF i = termMonths THEN principalAmount + interestAmount
                           ELSE monthlyPayment,
         principalAmount |-> principalAmount,
         interestAmount |-> interestAmount,
         remainingPrincipal |-> Max(0, after),
         status |-> "pending",
         balance |-> after]

RECURSIVE AmortLoop(_, _, _, _, _, _, _)
AmortLoop(i, remaining, acc, monthlyPayment, r, termMonths, startDate) ==
    IF i > termMonths THEN acc
    ELSE LET e == AmortEntry(i, remaining, monthlyPayment, r, termMonths, startDate)
         IN  AmortLoop(i + 1, e.balance,
                       Append(acc, [f \in DOMAIN e \ {"balance"} |-> e[f]]),
                       monthlyPayment, r, termMonths, startDate)

InvalidLoan(principal, annualRate, termMonths) ==
    principal <= 0 \/ annualRate[1] <= 0 \/ termMonths <= 0

computeFrenchAmortizationTable(principal, annualRate, termMonths, startDate) ==
    LET r == MonthlyRate(annualRate)
    IN  AmortLoop(1, principal, <<>>, MonthlyPayment(principal, r, termMonths),
                  r, termMonths, startDate)

\* The loans tried: valid ones, and ones each precondition rejects.
AmortStartDates == {DaysFromCivil(2026, 1, 1), DaysFromCivil(2026, 1, 31)}

Loans ==
    [principal : 0 .. MaxPrincipal,
     annualRate : AnnualRates \cup {<<0, 1>>},
     termMonths : 0 .. MaxTerm,
     startDate : AmortStartDates]

InitAmort ==
    /\ IdleApp
    /\ loan \in Loans
    /\ table = <<>>
    /\ amStatus = "input"
    /\ IdleSched
    /\ IdleBudget
    /\ IdleAnalytics
    /\ IdleForecast
    /\ IdleCall
    /\ IdleDebt

\* One call of computeFrenchAmortizationTable on the loan's parameters.
ComputeTable ==
    /\ amStatus = "input"
    /\ IF InvalidLoan(loan.principal, loan.annualRate, loan.termMonths)
       THEN /\ amStatus' = "threw"
            /\ table' = <<>>
       ELSE /\ amStatus' = "ok"
            /\ table' = computeFrenchAmortizationTable(loan.principal,
                            loan.annualRate, loan.termMonths, loan.startDate)
    /\ UNCHANGED <<loan, schedVars, budgetVars, analyticsVars, forecastVars, callVars, debtVars, appVars>>

NextAmort == ComputeTable

SpecAmort == InitAmort /\ [][NextAmort]_vars

PrincipalAmounts(t) == [i \in DOMAIN t |-> t[i].principalAmount]

\* C1: for every principal > 0, annualRate > 0 and termMonths > 0 the call
\* returns (it does not throw) a table of exactly termMonths entries whose
\* last entry has remainingPrincipal 0 and whose principalAmount sum is
\* exactly the principal.
C1_BalanceLaw ==
    (amStatus # "input"
        /\ loan.principal > 0 /\ loan.annualRate[1] > 0 /\ loan.termMonths > 0)
    => /\ amStatus = "ok"
       /\ Len(table) = loan.termMonths
       /\ table[Len(table)].remainingPrincipal = 0
       /\ SumSeq(PrincipalAmounts(table)) = loan.principal

\* A table of several periods whose last payment absorbed a rounding
\* remainder (it differs from the fixed payment).
C1_Witness ==
    /\ amStatus = "ok"
    /\ Len(table) >= 3
    /\ table[1].interestAmount > 0
    /\ table[Len(table)].paymentAmount # table[1].paymentAmount

\* C2: every entry but the last has paymentAmount = principalAmount +
\* interestAmount, and these entries all carry the same payment: the fixed
\* monthly payment of the loan.
C2_PaymentLaw ==
    amStatus = "ok" =>
        \A i \in 1 .. Len(table) - 1 :
            /\ table[i].paymentAmount
                   = table[i].principalAmount + table[i].interestAmount
            /\ table[i].paymentAmount = table[1].paymentAmount
            /\ table[i].paymentAmount
                   = MonthlyPayment(loan.principal, MonthlyRate(loan.annualRate),
                                    loan.termMonths)

\* A table with at least two non-final entries that split the payment
\* differently between principal and interest.
C2_Witness ==
    /\ amStatus = "ok"
    /\ Len(table) >= 3
    /\ table[1].interestAmount > table[2].interestAmount
    /\ table[2].interestAmount > 0

\* C30: in every entry principalAmount is not negative, and
\* remainingPrincipal is the principal less the principalAmount of the
\* entries up to it (so the balance is never below zero).
C30_BalanceNeverNegative ==
    amStatus = "ok" =>
        \A i \in DOMAIN table :
            /\ table[i].principalAmount >= 0
            /\ table[i].remainingPrincipal
                  = loan.principal - SumSeq(SubSeq(PrincipalAmounts(table), 1, i))

----------------------------------------------------------------------------
(* The table of a long-term debt over its life: payments and recomputes.   *)

\* The entry with periodNumber fromPeriod, as find returns it: nothing when
\* there is none.
FindPeriod(amortizationTable, fromPeriod) ==
    IF \E i \in DOMAIN amortizationTable : amortizationTable[i].periodNumber = fromPeriod
    THEN {amortizationTable[CHOOSE i \in DOMAIN amortizationTable :
              /\ amortizationTable[i].periodNumber = fromPeriod
              /\ \A j \in 1 .. i - 1 : amortizationTable[j].periodNumber # fromPeriod]}
    ELSE {}

\* recomputeFromPeriod throws: no entry of fromPeriod to read the dueDate
\* of, or computeFrenchAmortizationTable rejects its arguments.
RecomputeThrows(d, fromPeriod, newPrincipal) ==
    \/ FindPeriod(d.amortizationTable, fromPeriod) = {}
    \/ InvalidLoan(newPrincipal, d.annualInterestRate, d.termMonths - fromPeriod + 1)

\* { ...e, periodNumber: n }
WithPeriodNumber(e, n) == [f \in DOMAIN e |-> IF f = "periodNumber" THEN n ELSE e[f]]

\* recomputeFromPeriod without the renumbering of the new entries.
recomputeFromPeriodNoRenumber(d, fromPeriod, newPrincipal) ==
    Const(SelectSeq(d.amortizationTable, LAMBDA e : e.periodNumber < fromPeriod),
          LAMBDA paidEntries :
    Const(d.termMonths - fromPeriod + 1, LAMBDA remainingTermMonths :
    Const(CHOOSE e \in FindPeriod(d.amortizationTable, fromPeriod) : TRUE, LAMBDA from :
    Const(computeFrenchAmortizationTable(newPrincipal, d.annualInterestRate,
              remainingTermMonths, addMonths(from.dueDate, 0 - 1)),
          LAMBDA newEntries :
        paidEntries \o newEntries))))

recomputeFromPeriod(d, fromPeriod, newPrincipal) ==
    Const(SelectSeq(d.amortizationTable, LAMBDA e : e.periodNumber < fromPeriod),
          LAMBDA paidEntries :
    Const(d.termMonths - fromPeriod + 1, LAMBDA remainingTermMonths :
    Const(CHOOSE e \in FindPeriod(d.amortizationTable, fromPeriod) : TRUE, LAMBDA from :
    Const(computeFrenchAmortizationTable(newPrincipal, d.annualInterestRate,
              remainingTermMonths, addMonths(from.dueDate, 0 - 1)),
          LAMBDA computed :
    Const([i \in DOMAIN computed |->
              WithPeriodNumber(computed[i], computed[i].periodNumber + fromPeriod - 1)],
          LAMBDA newEntries :
        paidEntries \o newEntries)))))

\* An entry with some of its fields set, or added.
WithFields(e, fields) ==
    [f \in DOMAIN e \cup DOMAIN fields |-> IF f \in DOMAIN fields THEN fields[f] ELSE e[f]]

\* The debts tried, each with the table computed at creation.
DebtPrincipals == {60}
DebtRates == {<<6, 5>>, <<3, 1>>}
DebtTerms == {3, 4}
ExtraPayment == 10

InitDebt ==
    /\ IdleApp
    /\ IdleAmort
    /\ IdleSched
    /\ IdleBudget
    /\ IdleAnalytics
    /\ IdleForecast
    /\ IdleCall
    /\ \E p \in DebtPrincipals, rate \in DebtRates, n \in DebtTerms :
          longTermDebt =
              [id |-> "d1", originalPrincipal |-> p, annualInterestRate |-> rate,
               termMonths |-> n, startDate |-> DaysFromCivil(2026, 1, 31),
               amortizationTable |->
                   computeFrenchAmortizationTable(p, rate, n, DaysFromCivil(2026, 1, 31))]
    /\ debtOp = [op |-> "create"]
    /\ recomputes = 0

SetEntry(k, fields) ==
    longTermDebt' = [longTermDebt EXCEPT !.amortizationTable[k] =
                        WithFields(longTermDebt.amortizationTable[k], fields)]

\* Mark payment as made: the movement is created and linked to the entry.
\* The instalments are paid in order.
MarkPaid ==
    \E k \in DOMAIN longTermDebt.amortizationTable :
        /\ longTermDebt.amortizationTable[k].status # "paid"
        /\ \A j \in 1 .. k - 1 : longTermDebt.amortizationTable[j].status = "paid"
        /\ SetEntry(k, [status |-> "paid", linkedMovementId |-> <<"m", k>>])
        /\ debtOp' = [op |-> "paid"]
        /\ UNCHANGED <<recomputes, amortVars, schedVars, budgetVars, analyticsVars,
                       forecastVars, callVars, appVars>>

\* Partial payment of the first entry not yet paid.
MarkPartial ==
    \E k \in DOMAIN longTermDebt.amortizationTable :
        /\ longTermDebt.amortizationTable[k].status \in {"pending", "overdue"}
        /\ \A j \in 1 .. k - 1 : longTermDebt.amortizationTable[j].status = "paid"
        /\ SetEntry(k, [status |-> "partial", partialAmountPaid |-> 1])
        /\ debtOp' = [op |-> "partial"]
        /\ UNCHANGED <<recomputes, amortVars, schedVars, budgetVars, analyticsVars,
                       forecastVars, callVars, appVars>>

\* The due date of a pending entry has passed (and so have the due dates of
\* the entries before it).
MarkOverdue ==
    \E k \in DOMAIN longTermDebt.amortizationTable :
        /\ longTermDebt.amortizationTable[k].status = "pending"
        /\ \A j \in 1 .. k - 1 : longTermDebt.amortizationTable[j].status # "pending"
        /\ SetEntry(k, [status |-> "overdue"])
        /\ debtOp' = [op |-> "overdue"]
        /\ UNCHANGED <<recomputes, amortVars, schedVars, budgetVars, analyticsVars,
                       forecastVars, callVars, appVars>>

\* The balance left before period fromPeriod.
BalanceBefore(d, fromPeriod) ==
    IF fromPeriod = 1 THEN d.originalPrincipal
    ELSE d.amortizationTable[fromPeriod - 1].remainingPrincipal

\* An extra principal payment or a rate change: the debt's rate is set and
\* the table replaced by recomputeFromPeriod's, from any period of the
\* table or the one past its end, with the balance left or the balance
\* less an extra payment.
Recompute ==
    /\ recomputes < MaxRecomputes
    /\ \E fromPeriod \in 1 .. longTermDebt.termMonths + 1, rate \in DebtRates,
          extra \in {0, ExtraPayment} :
          LET before == longTermDebt.amortizationTable
              d == [longTermDebt EXCEPT !.annualInterestRate = rate]
              newPrincipal ==
                  IF fromPeriod > Len(before) THEN 0
                  ELSE Max(0, BalanceBefore(longTermDebt, fromPeriod) - extra)
          IN  IF RecomputeThrows(d, fromPeriod, newPrincipal)
              THEN /\ debtOp' = [op |-> "threw"]
                   /\ UNCHANGED longTermDebt
              ELSE /\ longTermDebt' = [d EXCEPT !.amortizationTable =
                                          recomputeFromPeriod(d, fromPeriod, newPrincipal)]
                   /\ debtOp' = [op |-> "recompute", fromPeriod |-> fromPeriod,
                                 newPrincipal |-> newPrincipal, before |-> before]
    /\ recomputes' = recomputes + 1
    /\ UNCHANGED <<amortVars, schedVars, budgetVars, analyticsVars, forecastVars, callVars, appVars>>

NextDebt == MarkPaid \/ MarkPartial \/ MarkOverdue \/ Recompute

SpecDebt == InitDebt /\ [][NextDebt]_vars

\* C13: the table recomputeFromPeriod returns has the entries before
\* fromPeriod as they were, all fields alike, then new entries numbered
\* fromPeriod .. termMonths: its period numbers are 1 .. termMonths in
\* order, and its last entry has remainingPrincipal 0.
C13_RecomputeFrame ==
    debtOp.op = "recompute" =>
        LET t == longTermDebt.amortizationTable
        IN  /\ Len(t) = longTermDebt.termMonths
            /\ \A i \in DOMAIN t : t[i].periodNumber = i
            /\ \A i \in 1 .. debtOp.fromPeriod - 1 : t[i] = debtOp.before[i]
            /\ t[Len(t)].remainingPrincipal = 0

\* A recompute from the third period on, after the first two entries were
\* paid, that changed the entries from the third on.
C13_Witness ==
    /\ debtOp.op = "recompute"
    /\ debtOp.fromPeriod = 3
    /\ Len(longTermDebt.amortizationTable) >= 4
    /\ longTermDebt.amortizationTable[1].status = "paid"
    /\ longTermDebt.amortizationTable[2].status = "paid"
    /\ "linkedMovementId" \in DOMAIN longTermDebt.amortizationTable[2]
    /\ longTermDebt.amortizationTable[3].paymentAmount # debtOp.before[3].paymentAmount

\* C14: after any sequence of recomputes the principalAmount of the entries
\* of the current table sum to originalPrincipal, and the last entry has
\* remainingPrincipal 0.
C14_PrincipalConserved ==
    LET t == longTermDebt.amortizationTable
    IN  /\ SumSeq(PrincipalAmounts(t)) = longTermDebt.originalPrincipal
        /\ t[Len(t)].remainingPrincipal = 0

\* C15: in every step the status of the entry of a period moves forward
\* only: an entry that is paid, partial or overdue is not pending after the
\* step, and a paid entry is still paid.
C15_StatusForward ==
    [][\A k \in DOMAIN longTermDebt.amortizationTable :
          LET before == longTermDebt.amortizationTable[k].status
              after == longTermDebt'.amortizationTable[k].status
          IN  /\ before # "pending" => after # "pending"
              /\ before = "paid" => after = "paid"]_vars

----------------------------------------------------------------------------
(* Financial health calculator (FEATURE_01, healthCalculator.ts)           *)

\* A JavaScript number that is the result of a division: an exact fraction
\* with a positive denominator, or one of the values a division by zero
\* gives.
Finite(num, den) == [kind |-> "finite", num |-> num, den |-> den]

Infinity == [kind |-> "Infinity"]

NegInfinity == [kind |-> "-Infinity"]

NaN == [kind |-> "NaN"]

\* a / b of JavaScript, for b >= 0
Divide(a, b) ==
    IF b # 0 THEN Finite(a, b)
    ELSE IF a > 0 THEN Infinity
    ELSE IF a < 0 THEN NegInfinity
    ELSE NaN

\* x >= num / den and x <= num / den of JavaScript (false for NaN)
AtLeast(x, num, den) ==
    \/ x.kind = "Infinity"
    \/ x.kind = "finite" /\ x.num * den >= num * x.den

AtMost(x, num, den) ==
    \/ x.kind = "-Infinity"
    \/ x.kind = "finite" /\ x.num * den <= num * x.den

\* subMonths(date, n) of date-fns
subMonths(date, n) == addMonths(date, 0 - n)

\* longTermDebts.filter((d) => d.isActive)
ActiveDebts(longTermDebts) == SelectSeq(longTermDebts, LAMBDA d : d.isActive)

TotalLiabilities(longTermDebts) ==
    LET active == ActiveDebts(longTermDebts)
    IN  SumSeq([i \in DOMAIN active |-> active[i].currentPrincipal])

MonthlyDebtPayments(longTermDebts) ==
    LET active == ActiveDebts(longTermDebts)
    IN  SumSeq([i \in DOMAIN active |-> active[i].monthlyPayment])

\* the movements of the last three months
RecentMovements(ms, day) == {m \in ms : m.date >= subMonths(day, 3)}

\* totalIncome ('1') and totalExpenses ('2') of the last three months
RecentTotal(ms, day, type) ==
    SumAmounts({m \in RecentMovements(ms, day) : m.typeOfMovement = type})

computeRatios(values) ==
    <<[id |-> "savings_rate", value |-> values.savingsRate, benchmark |-> Finite(1, 5),
       status |-> IF AtLeast(values.savingsRate, 1, 5) THEN "good"
                  ELSE IF AtLeast(values.savingsRate, 1, 10) THEN "warning"
                  ELSE "critical"],
      [id |-> "debt_to_income", value |-> values.debtToIncomeRatio,
       benchmark |-> Finite(7, 20),
       status |-> IF AtMost(values.debtToIncomeRatio, 7, 20) THEN "good"
                  ELSE IF AtMost(values.debtToIncomeRatio, 1, 2) THEN "warning"
                  ELSE "critical"],
      [id |-> "emergency_fund", value |-> values.emergencyFundMonths,
       benchmark |-> Finite(6, 1),
       status |-> IF AtLeast(values.emergencyFundMonths, 6, 1) THEN "good"
                  ELSE IF AtLeast(values.emergencyFundMonths, 3, 1) THEN "warning"
                  ELSE "critical"],
      [id |-> "net_worth", value |-> Finite(values.netWorth, 1),
       benchmark |-> Finite(0, 1),
       status |-> IF values.netWorth >= 0 THEN "good" ELSE "critical"]>>

\* The weights, in percent.
RatioWeight(id) ==
    CASE id = "savings_rate" -> 30
      [] id = "debt_to_income" -> 30
      [] id = "emergency_fund" -> 25
      [] id = "net_worth" -> 15
      [] OTHER -> 0

computeOverallScore(ratios) ==
    RoundDiv(SumSeq([i \in DOMAIN ratios |->
                        (IF ratios[i].status = "good" THEN 100
                         ELSE IF ratios[i].status = "warning" THEN 50
                         ELSE 0) * RatioWeight(ratios[i].id)]),
             100)

\* The snapshot, given the three ratios.
HealthSnapshot(params, monthlyIncome, monthlyExpenses, savingsRate,
               debtToIncomeRatio, emergencyFundMonths) ==
    LET totalAssets == SumSeq(params.entityTotals)
        totalLiabilities == TotalLiabilities(params.longTermDebts)
        ratios == computeRatios([savingsRate |-> savingsRate,
                                 debtToIncomeRatio |-> debtToIncomeRatio,
                                 emergencyFundMonths |-> emergencyFundMonths,
                                 netWorth |-> totalAssets - totalLiabilities])
    IN  [computedAt |-> params.today,
         overallScore |-> computeOverallScore(ratios),
         netWorth |-> totalAssets - totalLiabilities,
         totalAssets |-> totalAssets,
         totalLiabilities |-> totalLiabilities,
         monthlyIncome |-> monthlyIncome,
         monthlyExpenses |-> monthlyExpenses,
         monthlyDebtPayments |-> MonthlyDebtPayments(params.longTermDebts),
         savingsRate |-> savingsRate,
         debtToIncomeRatio |-> debtToIncomeRatio,
         emergencyFundMonths |-> emergencyFundMonths,
         ratios |-> ratios]

\* computeHealthSnapshot without the guards against division by zero.
computeHealthSnapshotNoGuard(params) ==
    LET monthlyIncome ==
            RoundDiv(RecentTotal(params.movements, params.today, "1"), 3)
        monthlyExpenses ==
            RoundDiv(RecentTotal(params.movements, params.today, "2"), 3)
        monthlyDebtPayments == MonthlyDebtPayments(params.longTermDebts)
    IN  HealthSnapshot(params, monthlyIncome, monthlyExpenses,
            Divide(monthlyIncome - monthlyExpenses - monthlyDebtPayments, monthlyIncome),
            Divide(monthlyDebtPayments, monthlyIncome),
            Divide(SumSeq(params.entityTotals), monthlyExpenses))

computeHealthSnapshot(params) ==
    LET monthlyIncome ==
            RoundDiv(RecentTotal(params.movements, params.today, "1"), 3)
        monthlyExpenses ==
            RoundDiv(RecentTotal(params.movements, params.today, "2"), 3)
        monthlyDebtPayments == MonthlyDebtPayments(params.longTermDebts)
    IN  HealthSnapshot(params, monthlyIncome, monthlyExpenses,
            IF monthlyIncome > 0
            THEN Divide(monthlyIncome - monthlyExpenses - monthlyDebtPayments,
                        monthlyIncome)
            ELSE Finite(0, 1),
            IF monthlyIncome > 0
            THEN Divide(monthlyDebtPayments, monthlyIncome)
            ELSE Infinity,
            IF monthlyExpenses > 0
            THEN Divide(SumSeq(params.entityTotals), monthlyExpenses)
            ELSE Infinity)

\* The inputs tried: today is 2026-05-31 or 2026-03-15; the movements are
\* any subset of five (income and expenses inside and outside the last
\* three months, one income of a single cent); no debt, an active one, or
\* an inactive and an active one; no entity, one or two.
HealthDays == {DaysFromCivil(2026, 5, 31), DaysFromCivil(2026, 3, 15)}

HealthMovements ==
    {[id |-> "1", typeOfMovement |-> "1", amount |-> 3000000,
      date |-> DaysFromCivil(2026, 4, 10)],
     [id |-> "2", typeOfMovement |-> "1", amount |-> 1,
      date |-> DaysFromCivil(2026, 3, 1)],
     [id |-> "3", typeOfMovement |-> "2", amount |-> 900000,
      date |-> DaysFromCivil(2026, 2, 28)],
     [id |-> "4", typeOfMovement |-> "2", amount |-> 450000,
      date |-> DaysFromCivil(2025, 12, 14)],
     [id |-> "5", typeOfMovement |-> "1", amount |-> 2500000,
      date |-> DaysFromCivil(2025, 11, 1)]}

HealthDebts ==
    {<<>>,
     <<[id |-> "1", isActive |-> TRUE, currentPrincipal |-> 200000000,
        monthlyPayment |-> 400000]>>,
     <<[id |-> "2", isActive |-> FALSE, currentPrincipal |-> 5000000,
        monthlyPayment |-> 100000],
       [id |-> "1", isActive |-> TRUE, currentPrincipal |-> 200000000,
        monthlyPayment |-> 400000]>>}

HealthEntityTotals == {<<>>, <<1000000>>, <<500000000, 1000000>>}

InitHealth ==
    /\ IdleApp
    /\ IdleAmort
    /\ IdleSched
    /\ IdleBudget
    /\ IdleAnalytics
    /\ IdleForecast
    /\ IdleDebt
    /\ \E ms \in SUBSET HealthMovements, debts \in HealthDebts,
          totals \in HealthEntityTotals, day \in HealthDays :
          callArgs = [movements |-> ms, longTermDebts |-> debts,
                      entityTotals |-> totals, today |-> day]
    /\ callResult = <<>>
    /\ callStatus = "input"

\* computeHealthSnapshot(params)
ComputeHealth ==
    /\ callStatus = "input"
    /\ callResult' = <<computeHealthSnapshot(callArgs)>>
    /\ callStatus' = "computed"
    /\ UNCHANGED <<callArgs, amortVars, schedVars, budgetVars, analyticsVars, forecastVars, debtVars, appVars>>

NextHealth == ComputeHealth

SpecHealth == InitHealth /\ [][NextHealth]_vars

\* C21: computeHealthSnapshot returns for every input, and no ratio of the
\* snapshot is NaN; when the income of the last three months is 0,
\* savingsRate is 0 and debtToIncomeRatio is Infinity, and when the
\* expenses of the last three months are 0, emergencyFundMonths is Infinity.
C21_UndefinedRatios ==
    callStatus = "computed" =>
        LET snapshot == callResult[1]
        IN  /\ \A r \in {snapshot.savingsRate, snapshot.debtToIncomeRatio,
                         snapshot.emergencyFundMonths} :
                  r.kind \in {"finite", "Infinity"}
            /\ RecentTotal(callArgs.movements, callArgs.today, "1") = 0
                  => /\ snapshot.savingsRate.kind = "finite"
                     /\ snapshot.savingsRate.num = 0
                     /\ snapshot.debtToIncomeRatio = Infinity
            /\ RecentTotal(callArgs.movements, callArgs.today, "2") = 0
                  => snapshot.emergencyFundMonths = Infinity

\* Reached: the snapshot of a user with movements but no income and no
\* expense in the last three months, and with an active debt.
C21_Witness ==
    /\ callStatus = "computed"
    /\ callArgs.movements # {}
    /\ RecentTotal(callArgs.movements, callArgs.today, "1") = 0
    /\ RecentTotal(callArgs.movements, callArgs.today, "2") = 0
    /\ callResult[1].monthlyDebtPayments > 0
    /\ callResult[1].debtToIncomeRatio = Infinity
    /\ callResult[1].emergencyFundMonths = Infinity

----------------------------------------------------------------------------
(* Amounts as text: addPoints (utils/current.tsx), and parseAmount and     *)
(* formatAmount of shared/utils/formatCurrency.  A string is a sequence    *)
(* of one-character strings.                                               *)

MaxChars == 5

DigitChars == <<"0", "1", "2", "3", "4", "5", "6", "7", "8", "9">>

IsDigit(c) == \E i \in DOMAIN DigitChars : DigitChars[i] = c

DigitValue(c) == (CHOOSE i \in DOMAIN DigitChars : DigitChars[i] = c) - 1

\* amount.replace(/\./g, "")
StripPoints(s) == SelectSeq(s, LAMBDA c : c # ".")

RECURSIVE DigitsValue(_)
DigitsValue(s) ==
    IF s = <<>> THEN 0
    ELSE 10 * DigitsValue(SubSeq(s, 1, Len(s) - 1)) + DigitValue(s[Len(s)])

\* Number(s) for a string without a decimal point: <<n>>, or <<>> for NaN
ToNumber(s) ==
    IF \A i \in DOMAIN s : IsDigit(s[i]) THEN <<DigitsValue(s)>>
    ELSE IF /\ Len(s) > 1 /\ s[1] = "-"
            /\ \A i \in 2 .. Len(s) : IsDigit(s[i])
         THEN <<0 - DigitsValue(Tail(s))>>
    ELSE <<>>

\* String(n) for an integer n >= 0
RECURSIVE ToDigits(_)
ToDigits(n) ==
    IF n < 10 THEN <<DigitChars[n + 1]>>
    ELSE ToDigits(n \div 10) \o <<DigitChars[(n % 10) + 1]>>

RECURSIVE Grouped(_, _)
Grouped(digits, separator) ==
    IF Len(digits) <= 3 THEN digits
    ELSE Grouped(SubSeq(digits, 1, Len(digits) - 3), separator)
            \o <<separator>> \o SubSeq(digits, Len(digits) - 2, Len(digits))

\* new Intl.NumberFormat("en-US").format(number)
NumberFormatEnUS(number) ==
    IF number = <<>> THEN <<"N", "a", "N">>
    ELSE IF number[1] < 0 THEN <<"-">> \o Grouped(ToDigits(0 - number[1]), ",")
    ELSE Grouped(ToDigits(number[1]), ",")

\* new Intl.NumberFormat("es-CO").format(number)
NumberFormatEsCO(number) ==
    IF number = <<>> THEN <<"N", "a", "N">>
    ELSE IF number[1] < 0 THEN <<"-">> \o Grouped(ToDigits(0 - number[1]), ".")
    ELSE Grouped(ToDigits(number[1]), ".")

\* String(n) for an integer n
NumberToString(n) == IF n < 0 THEN <<"-">> \o ToDigits(0 - n) ELSE ToDigits(n)

\* parseInt(s): the value of the longest numeral s starts with, <<>> for NaN
ParseInt(s) ==
    LET negative == s # <<>> /\ s[1] = "-"
        body == IF negative THEN Tail(s) ELSE s
        lengths == {k \in 0 .. Len(body) : \A i \in 1 .. k : IsDigit(body[i])}
        k == CHOOSE n \in lengths : \A j \in lengths : j <= n
    IN  IF k = 0 THEN <<>>
        ELSE IF negative THEN <<0 - DigitsValue(SubSeq(body, 1, k))>>
        ELSE <<DigitsValue(SubSeq(body, 1, k))>>

addPoints(amount) == NumberFormatEsCO(ToNumber(StripPoints(amount)))

\* parseAmount(input, 'es-CO'): <<cents>>, or <<>> when it throws
\* (non-numeric input once the grouping separators are stripped)
parseAmount(input) ==
    IF StripPoints(input) = <<>> THEN <<>> ELSE ToNumber(StripPoints(input))

\* formatAmount(cents, 'es-CO')
formatAmount(cents) == NumberFormatEsCO(<<cents>>)

\* The strings tried: all of at most MaxChars characters out of four
\* digits, the point and a letter; the amounts tried: the small ones and
\* some of four to ten digits.
AmountChars == {"0", "1", "5", "9", ".", "a"}

AmountStrings == UNION {[1 .. k -> AmountChars] : k \in 0 .. MaxChars}

Amounts == (0 .. 1200) \cup {9999, 10000, 150000, 999999, 1000000, 1500000,
                             1234567890, 2147483647}

InitFormat ==
    /\ IdleApp
    /\ IdleAmort
    /\ IdleSched
    /\ IdleBudget
    /\ IdleAnalytics
    /\ IdleForecast
    /\ IdleDebt
    /\ \/ \E n \in Amounts : callArgs = [cents |-> n]
       \/ \E s \in AmountStrings : callArgs = [input |-> s]
    /\ callResult = <<>>
    /\ callStatus = "input"

\* parseAmount(formatAmount(cents, 'es-CO'), 'es-CO')
FormatThenParse ==
    /\ callStatus = "input"
    /\ "cents" \in DOMAIN callArgs
    /\ callResult' = <<formatAmount(callArgs.cents),
                       parseAmount(formatAmount(callArgs.cents))>>
    /\ callStatus' = "formatted"
    /\ UNCHANGED <<callArgs, amortVars, schedVars, budgetVars, analyticsVars, forecastVars, debtVars, appVars>>

\* formatAmount(parseAmount(input, 'es-CO'), 'es-CO')
ParseThenFormat ==
    /\ callStatus = "input"
    /\ "input" \in DOMAIN callArgs
    /\ parseAmount(callArgs.input) # <<>>
    /\ callResult' = <<formatAmount(parseAmount(callArgs.input)[1])>>
    /\ callStatus' = "parsed"
    /\ UNCHANGED <<callArgs, amortVars, schedVars, budgetVars, analyticsVars, forecastVars, debtVars, appVars>>

\* parseAmount(input, 'es-CO') throws
ParseThrows ==
    /\ callStatus = "input"
    /\ "input" \in DOMAIN callArgs
    /\ parseAmount(callArgs.input) = <<>>
    /\ callStatus' = "threw"
    /\ UNCHANGED <<callArgs, callResult, amortVars, schedVars, budgetVars, analyticsVars, forecastVars, debtVars, appVars>>

\* addPoints(input) and addPoints(addPoints(input))
AddPoints ==
    /\ callStatus = "input"
    /\ "input" \in DOMAIN callArgs
    /\ callResult' = <<addPoints(callArgs.input), addPoints(addPoints(callArgs.input))>>
    /\ callStatus' = "pointed"
    /\ UNCHANGED <<callArgs, amortVars, schedVars, budgetVars, analyticsVars, forecastVars, debtVars, appVars>>

NextFormat == FormatThenParse \/ ParseThenFormat \/ ParseThrows \/ AddPoints

SpecFormat == InitFormat /\ [][NextFormat]_vars

\* A valid formatted amount: digits and grouping points, the digits being
\* the decimal numeral of an integer (no leading zero).
ValidAmountString(s) ==
    LET digits == StripPoints(s)
    IN  /\ digits # <<>>
        /\ \A i \in DOMAIN digits : IsDigit(digits[i])
        /\ Len(digits) > 1 => digits[1] # "0"

\* C22: parsing the formatted text of a non-negative integer gives the
\* integer back; formatting the parsed value of a valid formatted amount
\* gives the same text up to its grouping points; and addPoints applied
\* twice to a digit string gives what it gives applied once.
C22_RoundTrip ==
    /\ callStatus = "formatted" => callResult[2] = <<callArgs.cents>>
    /\ (callStatus = "parsed" /\ ValidAmountString(callArgs.input))
          => StripPoints(callResult[1]) = StripPoints(callArgs.input)
    /\ (callStatus = "pointed" /\ \A i \in DOMAIN callArgs.input : IsDigit(callArgs.input[i]))
          => callResult[2] = callResult[1]

\* Reached: a digit string of four digits or more, which addPoints groups.
C22_Witness ==
    /\ callStatus = "pointed"
    /\ \A i \in DOMAIN callArgs.input : IsDigit(callArgs.input[i])
    /\ Len(callArgs.input) >= 4
    /\ callArgs.input[1] # "0"
    /\ Len(callResult[1]) = Len(callArgs.input) + 1
    /\ callResult[1][Len(callResult[1]) - 3] = "."

----------------------------------------------------------------------------
(* The shipped application: the movements provider (in two versions,       *)
(* context/MovementsContext.tsx and the later one that recalculates the    *)
(* entity totals), the entities provider, the balance display, the         *)
(* movement form and the transfer screen.  A handler runs to its end, and  *)
(* the render and the effects that follow it are part of the same step;    *)
(* the AsyncStorage calls it issues complete later, in the order issued,   *)
(* and before the user adds or removes the next movement.                  *)

MaxMovements == 3
MaxId == 3

EntityIds == 1 .. 3

\* id.toString()
EntityKey(id) == ToDigits(id)

\* The day of new Date(), and the days the date picker is set to.
AppToday == DaysFromCivil(2026, 3, 10)

\* Number(raw) of recalcTotalsFromMovements, raw being the amount without
\* points ("0" when empty), negated for an expense: <<value>>, <<>> for NaN
MovementValue(m) ==
    LET raw == IF StripPoints(m.amount) = <<>> THEN <<"0">> ELSE StripPoints(m.amount)
        value == ToNumber(raw)
    IN  IF value = <<>> THEN <<>>
        ELSE IF m.typeOfMovement = "2" THEN <<0 - Abs(value[1])>>
        ELSE value

\* totalsMap[key] after the forEach over the movements: <<total>>, <<>> for
\* NaN (if (!totalsMap[key]) totalsMap[key] = 0 restarts the sum after a NaN)
TotalsMapEntry(key, list) ==
    LET mine == SelectSeq(list, LAMBDA m : m.entity # <<>> /\ m.entity = key)
        nans == {i \in DOMAIN mine : MovementValue(mine[i]) = <<>>}
        last == IF nans = {} THEN 0 ELSE CHOOSE i \in nans : \A j \in nans : j <= i
    IN  IF mine # <<>> /\ last = Len(mine) THEN <<>>
        ELSE <<SumSeq([i \in 1 .. (Len(mine) - last) |-> MovementValue(mine[last + i])[1]])>>

\* recalcTotalsFromMovements(movements): the new entities (NaN || 0 is 0)
recalcTotalsFromMovements(currentEntities, list) ==
    [i \in DOMAIN currentEntities |->
        LET entry == TotalsMapEntry(EntityKey(currentEntities[i].id), list)
            total == IF entry = <<>> THEN 0 ELSE entry[1]
        IN  [currentEntities[i] EXCEPT !.total_amount = addPoints(NumberToString(total))]]

\* calculateTotalBalance() of BalanceDisplay: <<total>>, <<>> for NaN
calculateTotalBalance(list) ==
    LET parsed == [i \in DOMAIN list |-> ParseInt(StripPoints(list[i].amount))]
    IN  IF \E i \in DOMAIN list : parsed[i] = <<>> THEN <<>>
        ELSE <<SumSeq([i \in DOMAIN list |->
                        IF list[i].typeOfMovement = "1" THEN parsed[i][1]
                        ELSE 0 - parsed[i][1]])>>

\* [...movements].sort((a, b) => b.date - a.date): latest first, stable
RECURSIVE SortByDateDesc(_)
SortByDateDesc(list) ==
    IF list = <<>> THEN <<>>
    ELSE LET latest == CHOOSE d \in {list[i].date : i \in DOMAIN list} :
                           \A i \in DOMAIN list : list[i].date <= d
         IN  SelectSeq(list, LAMBDA m : m.date = latest)
                \o SortByDateDesc(SelectSeq(list, LAMBDA m : m.date # latest))

\* movements.reduce((max, item) => item.id > max ? item.id : max, 0)
LastId(list) ==
    IF list = <<>> THEN 0
    ELSE CHOOSE n \in {list[i].id : i \in DOMAIN list} :
             \A i \in DOMAIN list : list[i].id <= n

WithId(movement, id) ==
    [id |-> id, typeOfMovement |-> movement.typeOfMovement, amount |-> movement.amount,
     entity |-> movement.entity, date |-> movement.date]

\* addMovement of context/MovementsContext.tsx, called for each of `added`
\* in one handler: every id is taken from the list of the last render.
addMovementClosure(rendered, added) ==
    rendered \o [i \in DOMAIN added |-> WithId(added[i], LastId(rendered) + 1)]

\* addMovement of the later provider, called for each of `added` in one
\* handler: each updater takes its id from the list it is applied to.
RECURSIVE addMovementUpdater(_, _)
addMovementUpdater(prev, added) ==
    IF added = <<>> THEN prev
    ELSE addMovementUpdater(<<WithId(Head(added), LastId(prev) + 1)>> \o prev, Tail(added))

\* removeMovement(id)
removeMovement(prev, id) == SelectSeq(prev, LAMBDA m : m.id # id)

\* entities.find((entity) => entity.id === id), null as <<>>
FindEntity(list, id) ==
    IF id # 0 /\ \E i \in DOMAIN list : list[i].id = id
    THEN <<list[CHOOSE i \in DOMAIN list : list[i].id = id]>>
    ELSE <<>>

\* hasEnoughBalance, a memo of fromEntity and amountTransaction
hasEnoughBalance(from, amount) ==
    /\ from # <<>>
    /\ LET available == ParseInt(StripPoints(from[1].total_amount))
           current == ParseInt(StripPoints(amount))
       IN  available # <<>> /\ current # <<>> /\ current[1] <= available[1]

\* The two versions of the movements provider.
Providers == {"MovementsContext", "MovementsContextRecalc"}

Text(digits) == [i \in 1 .. Len(digits) |-> DigitChars[digits[i] + 1]]

\* What the movement form submits: an expense on entity 1, a movement
\* without a type on entity 2 dated the day before, an income on entity 3,
\* and the untouched form.
FormMovements ==
    {[typeOfMovement |-> "2", amount |-> addPoints(Text(<<1, 0, 0, 0>>)),
      entity |-> EntityKey(1), date |-> AppToday],
     [typeOfMovement |-> "", amount |-> addPoints(Text(<<1, 0, 0, 0>>)),
      entity |-> EntityKey(2), date |-> addDays(AppToday, 0 - 1)],
     [typeOfMovement |-> "1", amount |-> addPoints(Text(<<5, 0, 0>>)),
      entity |-> EntityKey(3), date |-> AppToday],
     [typeOfMovement |-> "", amount |-> <<>>, entity |-> <<>>, date |-> AppToday]}

\* What is typed as the amount of a transfer.
TransferInputs == {Text(<<2, 0, 0, 0>>)}

\* The movements an earlier session left in storage.
PersistedLists ==
    {<<>>,
     <<[id |-> 1, typeOfMovement |-> "1", amount |-> addPoints(Text(<<2, 0, 0, 0>>)),
        entity |-> EntityKey(1), date |-> addDays(AppToday, 0 - 2)]>>}

\* The entities with every total at zero.
ZeroEntities == [i \in EntityIds |-> [id |-> i, total_amount |-> <<"0">>]]

\* After the providers are mounted: the movements are empty, and the two
\* effects have issued loadMovements and saveMovements([]).  The entities
\* are loaded with the totals of the movements in storage; the later
\* provider has set every total to zero (recalcTotalsFromMovements([])).
InitApp ==
    /\ IdleAmort
    /\ IdleSched
    /\ IdleBudget
    /\ IdleAnalytics
    /\ IdleForecast
    /\ IdleCall
    /\ IdleDebt
    /\ provider \in Providers
    /\ persisted \in PersistedLists
    /\ storage = persisted
    /\ movementsState = <<>>
    /\ entities = IF provider = "MovementsContextRecalc" THEN ZeroEntities
                  ELSE recalcTotalsFromMovements(ZeroEntities, persisted)
    /\ storageOps = <<[op |-> "get"], [op |-> "set", value |-> <<>>]>>
    /\ loadData = <<>>
    /\ hydrated = FALSE
    /\ touched = FALSE
    /\ selectedEntities = [from |-> 0, to |-> 0]
    /\ fromEntity = <<>>
    /\ toEntity = <<>>
    /\ amountTransaction = <<"0">>
    /\ appOp = [op |-> "mount"]

\* The effect on [movements]: saveMovements, and in the later provider the
\* sort before it and recalcTotalsFromMovements after it.
MovementsEffect(list) ==
    IF provider = "MovementsContextRecalc"
    THEN /\ storageOps' = Append(storageOps, [op |-> "set", value |-> SortByDateDesc(list)])
         /\ entities' = recalcTotalsFromMovements(entities, list)
    ELSE /\ storageOps' = Append(storageOps, [op |-> "set", value |-> list])
         /\ entities' = entities

otherVars == <<amortVars, schedVars, budgetVars, analyticsVars, forecastVars, callVars,
               debtVars>>

\* AsyncStorage.getItem completes (loadMovements)
StorageGet ==
    /\ storageOps # <<>> /\ Head(storageOps).op = "get"
    /\ loadData' = <<storage>>
    /\ storageOps' = Tail(storageOps)
    /\ appOp' = [op |-> "storage"]
    /\ UNCHANGED <<provider, movementsState, entities, storage, hydrated, touched, persisted,
                   selectedEntities, fromEntity, toEntity, amountTransaction, otherVars>>

\* AsyncStorage.setItem completes (saveMovements)
StorageSet ==
    /\ storageOps # <<>> /\ Head(storageOps).op = "set"
    /\ storage' = Head(storageOps).value
    /\ storageOps' = Tail(storageOps)
    /\ appOp' = [op |-> "storage"]
    /\ UNCHANGED <<provider, movementsState, entities, loadData, hydrated, touched, persisted,
                   selectedEntities, fromEntity, toEntity, amountTransaction, otherVars>>

\* fetchData continues after its await: setMovements(data)
LoadResolve ==
    /\ loadData # <<>>
    /\ movementsState' = loadData[1]
    /\ loadData' = <<>>
    /\ hydrated' = TRUE
    /\ MovementsEffect(loadData[1])
    /\ appOp' = [op |-> "load"]
    /\ UNCHANGED <<provider, storage, touched, persisted,
                   selectedEntities, fromEntity, toEntity, amountTransaction, otherVars>>

\* The list after addMovement is called for each of `added` in one handler.
AddMovements(added) ==
    IF provider = "MovementsContextRecalc"
    THEN addMovementUpdater(movementsState, added)
    ELSE addMovementClosure(movementsState, added)

\* saveMovement of the movement form
SubmitMovement ==
    /\ Len(movementsState) < MaxMovements
    /\ LastId(movementsState) < MaxId
    /\ storageOps = <<>>
    /\ \E movement \in FormMovements :
          /\ movementsState' = AddMovements(<<movement>>)
          /\ MovementsEffect(AddMovements(<<movement>>))
    /\ touched' = TRUE
    /\ appOp' = [op |-> "user"]
    /\ UNCHANGED <<provider, storage, loadData, hydrated, persisted,
                   selectedEntities, fromEntity, toEntity, amountTransaction, otherVars>>

\* removeMovement(id), for a movement of the list
RemoveMovement ==
    /\ storageOps = <<>>
    /\ \E i \in DOMAIN movementsState :
          /\ movementsState' = removeMovement(movementsState, movementsState[i].id)
          /\ MovementsEffect(removeMovement(movementsState, movementsState[i].id))
    /\ touched' = TRUE
    /\ appOp' = [op |-> "user"]
    /\ UNCHANGED <<provider, storage, loadData, hydrated, persisted,
                   selectedEntities, fromEntity, toEntity, amountTransaction, otherVars>>

\* handleSelectEntity(id, type); the memo of [selectedEntities] is taken anew
SelectEntity ==
    /\ \E id \in EntityIds, type \in {"from", "to"} :
          /\ selectedEntities' = [selectedEntities EXCEPT ![type] = id]
          /\ selectedEntities' # selectedEntities
    /\ fromEntity' = FindEntity(entities, selectedEntities'.from)
    /\ toEntity' = [i \in DOMAIN FindEntity(entities, selectedEntities'.to) |->
                       [id |-> FindEntity(entities, selectedEntities'.to)[i].id]]
    /\ appOp' = [op |-> "user"]
    /\ UNCHANGED <<provider, movementsState, entities, storage, storageOps, loadData, hydrated,
                   touched, persisted, amountTransaction, otherVars>>

\* handleChangeAmount(newAmount)
ChangeAmount ==
    /\ fromEntity # <<>> /\ toEntity # <<>>
    /\ \E newAmount \in TransferInputs \cup {<<"0">>} :
          amountTransaction' = addPoints(newAmount)
    /\ amountTransaction' # amountTransaction
    /\ appOp' = [op |-> "user"]
    /\ UNCHANGED <<provider, movementsState, entities, storage, storageOps, loadData, hydrated,
                   touched, persisted, selectedEntities, fromEntity, toEntity, otherVars>>

\* The transfer without its second movement.
TransferMovementsOutOnly ==
    <<[typeOfMovement |-> "2", amount |-> amountTransaction,
       entity |-> EntityKey(selectedEntities.from), date |-> AppToday]>>

\* The two movements of handleSaveTransaction
TransferMovements ==
    <<[typeOfMovement |-> "2", amount |-> amountTransaction,
       entity |-> EntityKey(selectedEntities.from), date |-> AppToday],
      [typeOfMovement |-> "1", amount |-> amountTransaction,
       entity |-> EntityKey(selectedEntities.to), date |-> AppToday]>>

\* handleSaveTransaction, from the button shown when both entities are
\* selected and hasEnoughBalance
SaveTransaction ==
    /\ fromEntity # <<>> /\ toEntity # <<>>
    /\ hasEnoughBalance(fromEntity, amountTransaction)
    /\ Len(movementsState) + 2 <= MaxMovements
    /\ LastId(movementsState) + 2 <= MaxId
    /\ storageOps = <<>>
    /\ movementsState' = AddMovements(TransferMovements)
    /\ MovementsEffect(AddMovements(TransferMovements))
    /\ selectedEntities' = [from |-> 0, to |-> 0]
    /\ fromEntity' = <<>>
    /\ toEntity' = <<>>
    /\ amountTransaction' = <<"0">>
    /\ touched' = TRUE
    /\ appOp' = [op |-> "transfer", from |-> selectedEntities.from,
                 to |-> selectedEntities.to, amount |-> amountTransaction]
    /\ UNCHANGED <<provider, storage, loadData, hydrated, persisted, otherVars>>

NextApp ==
    \/ StorageGet
    \/ StorageSet
    \/ LoadResolve
    \/ SubmitMovement
    \/ RemoveMovement

SpecApp == InitApp /\ [][NextApp]_vars

\* The application once start-up is over and the transfer screen is open:
\* the movements of storage are loaded and the save that followed is done.
\* From here entities are selected, amounts typed and transfers saved, and
\* movements are removed from the list.
InitTransfer ==
    /\ IdleAmort
    /\ IdleSched
    /\ IdleBudget
    /\ IdleAnalytics
    /\ IdleForecast
    /\ IdleCall
    /\ IdleDebt
    /\ provider \in Providers
    /\ persisted \in PersistedLists
    /\ storage = persisted
    /\ movementsState = persisted
    /\ entities = recalcTotalsFromMovements(ZeroEntities, persisted)
    /\ storageOps = <<>>
    /\ loadData = <<>>
    /\ hydrated = TRUE
    /\ touched = TRUE
    /\ selectedEntities = [from |-> 0, to |-> 0]
    /\ fromEntity = <<>>
    /\ toEntity = <<>>
    /\ amountTransaction = <<"0">>
    /\ appOp = [op |-> "load"]

NextTransfer ==
    \/ StorageSet
    \/ RemoveMovement
    \/ SelectEntity
    \/ ChangeAmount
    \/ SaveTransaction

SpecTransfer == InitTransfer /\ [][NextTransfer]_vars

\* The amount of a movement as a number (0 for the empty text).
AmountOf(m) ==
    IF StripPoints(m.amount) = <<>> THEN 0 ELSE ToNumber(StripPoints(m.amount))[1]

\* The sum of the amounts of the movements of `list` of one type that
\* reference the entity `id`.
SumOfType(list, id, type) ==
    LET mine == SelectSeq(list, LAMBDA m : m.entity = EntityKey(id)
                                           /\ m.typeOfMovement = type)
    IN  SumSeq([i \in DOMAIN mine |-> AmountOf(mine[i])])

\* The total of entity `id` that recalcTotalsFromMovements derives from
\* `list`, read back from its text.
BalanceOf(id, list) ==
    ParseInt(StripPoints(recalcTotalsFromMovements(ZeroEntities, list)[id].total_amount))[1]

\* C23: once the recalculation has run (the later provider runs it after
\* every change of the movements), the stored total_amount of every entity
\* is the sum of the income amounts minus the sum of the expense amounts of
\* the movements that reference it (0 when none does).
C23_StoredTotals ==
    provider = "MovementsContextRecalc" =>
        \A i \in DOMAIN entities :
            ParseInt(StripPoints(entities[i].total_amount))
                = <<SumOfType(movementsState, entities[i].id, "1")
                      - SumOfType(movementsState, entities[i].id, "2")>>

\* C24: the ids of the movements are pairwise different at all times, also
\* after two addMovement calls of one handler.
C24_UniqueIds ==
    \A i, j \in DOMAIN movementsState :
        i # j => movementsState[i].id # movementsState[j].id

\* C25: during start-up (before the user changes anything) the movements
\* that were in storage stay in storage, and once the load has resolved and
\* no storage call is pending they are in memory.
C25_NoLossAtStartup ==
    ~touched =>
        /\ \A k \in DOMAIN persisted :
              \E i \in DOMAIN storage : storage[i] = persisted[k]
        /\ (hydrated /\ storageOps = <<>> /\ loadData = <<>>)
              => \A k \in DOMAIN persisted :
                    \E i \in DOMAIN movementsState : movementsState[i] = persisted[k]

\* C26: when every movement references an existing entity, the balance of
\* BalanceDisplay is the sum of the totals that recalcTotalsFromMovements
\* gives the entities, whatever the types of the movements.
C26_DisplayIsSumOfTotals ==
    (\A i \in DOMAIN movementsState :
        \E id \in EntityIds : movementsState[i].entity = EntityKey(id))
    => calculateTotalBalance(movementsState)
          = <<SumSeq([id \in EntityIds |-> BalanceOf(id, movementsState)])>>

C28_EnoughBalance ==
    [][appOp'.op = "transfer" =>
        /\ ParseInt(StripPoints(appOp'.amount))[1] <= BalanceOf(appOp'.from, movementsState)
        /\ BalanceOf(appOp'.from, movementsState') >= 0]_vars

====
